---- MODULE Spec2Model ----
(***************************************************************************)
(* The authoritative match server of RayFall (server/index.js): rooms,     *)
(* players, scores, items, the per-room countdown interval and the         *)
(* one-shot respawn and item-expiry timers.                                *)
(*                                                                         *)
(* Time is counted in steps of 1000 ms.  A timer carries the number of     *)
(* steps left until it is due ("left") and the number of steps since it    *)
(* was scheduled ("age"); Tick lets one step pass and is disabled while a  *)
(* due timer has not run.  Socket events arrive at any moment in between.  *)
(* What a handler emits is an operator over the state before the handler   *)
(* runs (the ...Out definitions); the counters removed, collected and      *)
(* gameOvers record how often an event was emitted so far.                 *)
(* Coordinates are in tenths of a map unit (2.5 is written 25).            *)
(* A string that the code transforms (a room id) is a sequence of          *)
(* one-character strings.                                                  *)
(***************************************************************************)
EXTENDS FiniteSets, Integers, Sequences, TLC

(***************************************************************************)
(* Bounds of the model                                                     *)
(***************************************************************************)
\* room objects ever created
MaxRooms == 2
\* items ever spawned (each death spawns one) in Spec
MaxItems == 1
\* items ever spawned in SpecBurst
MaxBurstItems == 2
\* seconds below 0 that the countdown of a replaced room is followed in
\* SpecUuid
MaxOvertime == 2

Sockets == {"s1", "s2"}
\* ids a client may name as shooter or victim; a socket that is not in the
\* room is the id the room does not know
PlayerIds == Sockets
\* names that a lookup finds in every object literal although they are not
\* keys of it: the properties inherited from Object.prototype
Inherited == {"constructor"}
\* the same name sent as an item id; the item ids of the model are the
\* numbers of the spawns, and 0 stands for "constructor"
InheritedItemIds == {0}
\* customId values of createRoom; <<>> is the absent (falsy) id
RequestedIds == {<<>>, <<"a">>}
\* further customId values of the lobby: one in upper case, and two of eleven
\* characters that differ in case and in the eleventh character only
LobbyIds ==
    RequestedIds
        \cup {<<"A">>,
              <<"a", "b", "c", "d", "e", "f", "a", "b", "c", "d", "e">>,
              <<"A", "B", "C", "D", "E", "F", "A", "B", "C", "D", "f">>}
\* values uuidv4() may return (their first characters)
Uuids == {<<"c", "0", "f", "f", "e", "e", "1">>, <<"b", "0", "0", "0", "0", "0", "2">>}
\* the username each client sends with createRoom and joinRoom; "" is the
\* absent name
UsernameOf == [s \in Sockets |-> IF s = "s1" THEN "" ELSE "Bob"]
\* the indices into SAFE_SPAWNS that Math.random() selects
SpawnPicks == {1, 2, 3, 4, 5}
\* duration values of createRoom in minutes, as <<numerator, denominator>>
ShortDurations == {<<1, 20>>}
MatchDurations == {<<1, 1>>, <<2, 1>>}
\* damage values of playerHit
Damages == {50, 100}
\* payloads of playerMove
Moves == {[x |-> 75, y |-> 95, angle |-> 90]}

(***************************************************************************)
(* Program constants                                                       *)
(***************************************************************************)
SAFE_SPAWNS ==
    << [x |-> 25, y |-> 25], [x |-> 215, y |-> 25], [x |-> 25, y |-> 215],
       [x |-> 215, y |-> 215], [x |-> 120, y |-> 120] >>
RESPAWN_DELAY == 3
ITEM_TIMEOUT == 5
INTERVAL_PERIOD == 1
SECONDS_PER_MINUTE == 60
DEFAULT_DURATION == <<5, 1>>
CUSTOM_ID_LEN == 10
GENERATED_ID_LEN == 6
ITEM_HEALTH == 50
ITEM_AMMO == 51
START_HEALTH == 100

VARIABLES
    conn,       \* socket -> "new" | "open" | "closed"
    rooms,      \* the room table: room id -> index of its room object, 0 if none
    heap,       \* the room objects ever created, in creation order
    intervals,  \* the active setInterval timers
    nIntervals, \* number of setInterval calls so far (the handle of a timer)
    respawns,   \* the pending respawn setTimeout timers, in scheduling order
    expiries,   \* the pending item-expiry setTimeout timers
    nItems,     \* number of items spawned so far
    removed,    \* item -> number of itemRemoved events emitted for it
    collected,  \* item -> number of itemCollected events emitted for it
    gameOvers,  \* room object -> number of gameOver events emitted for it
    objectHealth, \* the health property of the function Object, which is what
                \* players["constructor"] yields: "undefined" | "NaN"
    net,        \* the NetworkManager singleton of the local client
    game,       \* the Game component of the local client
    ray,        \* the grid walk in progress in the renderer
    foe         \* the enemy of the single-player game

\* the state of the local client
clientVars == << net, game, ray, foe >>

\* the state of the server
serverVars == << conn, rooms, heap, intervals, nIntervals, respawns, expiries,
                 nItems, removed, collected, gameOvers, objectHealth >>

vars == << serverVars, clientVars >>

(***************************************************************************)
(* The local client before a game is mounted                               *)
(***************************************************************************)
\* the socket of the local client, and the codename its player types in
Me == "s1"
Codename == "Ann"

\* a room id field that holds no string: null, or the undefined a missing
\* payload field yields; both are falsy
NullRoomId == [is |-> "null", id |-> << >>]
UndefinedRoomId == [is |-> "undefined", id |-> << >>]

\* new NetworkManager(): no socket id, no room id, no player, no callback;
\* joined is the set of rooms of the socket on the server, where every
\* socket is in the room named by its own id, and outbox the messages the
\* socket has emitted and the server has not handled yet
NetworkManager ==
    [ playerId |-> "null", roomId |-> NullRoomId, players |-> << >>,
      timeLeft |-> 300, joined |-> {<<Me>>}, outbox |-> << >>,
      on |-> [h \in {"onRoomJoined", "onTimeUpdate", "onGameOver",
                     "onHealthUpdate", "onPlayerRespawn", "onPlayerDied",
                     "onItemSpawn", "onItemRemoved", "onItemCollected"}
                  |-> "null"] ]

\* no Game component is mounted
NoGame == [mounted |-> FALSE]

\* no grid walk is in progress
NoRay == [at |-> "idle"]

\* stateRef.current.enemies of a game that has spawned no enemy
NoFoe == << >>

(***************************************************************************)
(* Strings                                                                 *)
(***************************************************************************)
Min(a, b) == IF a < b THEN a ELSE b

UpperChar(c) ==
    CASE c = "a" -> "A" [] c = "b" -> "B" [] c = "c" -> "C"
      [] c = "d" -> "D" [] c = "e" -> "E" [] c = "f" -> "F"
      [] OTHER -> c

toUpperCase(str) == [i \in 1..Len(str) |-> UpperChar(str[i])]

substring(str, n) == SubSeq(str, 1, Min(n, Len(str)))

CustomRoomId(requestedId) == substring(toUpperCase(requestedId), CUSTOM_ID_LEN)

GeneratedRoomId(uuid) == toUpperCase(substring(uuid, GENERATED_ID_LEN))

RoomIds ==
    {CustomRoomId(r) : r \in LobbyIds \ {<<>>}}
        \cup {GeneratedRoomId(u) : u \in Uuids}

(***************************************************************************)
(* Room objects                                                            *)
(***************************************************************************)
NoRoom == 0
NoTimer == 0

\* rooms[roomId], as the index of the room object
RoomAt(roomId) == IF roomId \in DOMAIN rooms THEN rooms[roomId] ELSE NoRoom

\* the insertion-ordered score map: a sequence of [id, score]
HasScore(scores, id) == \E i \in 1..Len(scores) : scores[i].id = id

ScoreOf(scores, id) ==
    LET i == CHOOSE j \in 1..Len(scores) : scores[j].id = id
    IN  scores[i].score

\* scores[id] = v: an existing key keeps its place, a new key goes last
SetScore(scores, id, v) ==
    IF HasScore(scores, id)
    THEN [i \in 1..Len(scores) |->
              IF scores[i].id = id THEN [id |-> id, score |-> v] ELSE scores[i]]
    ELSE Append(scores, [id |-> id, score |-> v])

NewRoom(roomId, duration) ==
    [ id            |-> roomId,
      players       |-> << >>,
      items         |-> << >>,
      timeLeft      |-> (duration[1] * SECONDS_PER_MINUTE) \div duration[2],
      status        |-> "WAITING",
      scores        |-> << >>,
      timerInterval |-> NoTimer ]

NewPlayer(id, username) ==
    [ x |-> 25, y |-> 25, angle |-> 0, health |-> START_HEALTH, id |-> id,
      isDead |-> FALSE, name |-> username ]

\* obj[key] = val on a map with a growing key set
Put(map, key, val) ==
    [k \in DOMAIN map \cup {key} |-> IF k = key THEN val ELSE map[k]]

\* delete obj[key]
Delete(map, key) == [k \in DOMAIN map \ {key} |-> map[k]]

(***************************************************************************)
(* Events                                                                  *)
(***************************************************************************)
Ev(ev, to, p) == [ev |-> ev, to |-> to, p |-> p]
ToSocket(s) == <<"socket", s>>
ToRoom(roomId) == <<"room", roomId>>
ToOthers(roomId, s) == <<"room", roomId, "except", s>>
ToAll == <<"all">>

\* getRoomList() over a room table tbl and room objects hp
getRoomList(tbl, hp) ==
    { [ id       |-> hp[tbl[r]].id,
        count    |-> Cardinality(DOMAIN hp[tbl[r]].players),
        status   |-> hp[tbl[r]].status,
        timeLeft |-> hp[tbl[r]].timeLeft ] : r \in {q \in DOMAIN tbl : tbl[q] # NoRoom} }

(***************************************************************************)
(* Initial state: the server has started, nobody is connected              *)
(***************************************************************************)
Init ==
    /\ conn = [s \in Sockets |-> "new"]
    /\ rooms = [r \in RoomIds |-> NoRoom]
    /\ heap = << >>
    /\ intervals = {}
    /\ nIntervals = 0
    /\ respawns = << >>
    /\ expiries = {}
    /\ nItems = 0
    /\ removed = << >>
    /\ collected = << >>
    /\ gameOvers = << >>
    /\ objectHealth = "undefined"
    /\ net = NetworkManager
    /\ game = NoGame
    /\ ray = NoRay
    /\ foe = NoFoe

\* io.on('connection')
ConnectOut(s) == << Ev("roomListUpdate", ToSocket(s), getRoomList(rooms, heap)) >>

Connect(s) ==
    /\ conn[s] = "new"
    /\ conn' = [conn EXCEPT ![s] = "open"]
    /\ UNCHANGED << objectHealth, rooms, heap, intervals, nIntervals, respawns, expiries,
                    nItems, removed, collected, gameOvers >>

\* socket.on('requestRoomList'), registered twice
RequestRoomListOut(s) ==
    << Ev("roomListUpdate", ToSocket(s), getRoomList(rooms, heap)),
       Ev("roomListUpdate", ToSocket(s), getRoomList(rooms, heap)) >>

RequestRoomList(s) ==
    /\ conn[s] = "open"
    /\ UNCHANGED serverVars

(***************************************************************************)
(* Lobby                                                                   *)
(***************************************************************************)
\* startGameLoop(roomId): the room object after the call; h is the handle
\* setInterval would return
startGameLoop(room, h) ==
    IF room.timerInterval # NoTimer THEN room
    ELSE [room EXCEPT !.timerInterval = h]

\* a join that leaves the status and the countdown as they are
JoinedIdle(room, s, username, h) ==
    [room EXCEPT !.players = Put(@, s, NewPlayer(s, username)),
                 !.scores = SetScore(@, s, 0)]

\* a join that starts a countdown whether or not one is running
JoinedRestarting(room, s, username, h) ==
    [room EXCEPT !.players = Put(@, s, NewPlayer(s, username)),
                 !.scores = SetScore(@, s, 0),
                 !.status = IF @ = "WAITING" THEN "PLAYING" ELSE @,
                 !.timerInterval = h]

\* a join that sets the status to PLAYING whatever it was
JoinedReopening(room, s, username, h) ==
    startGameLoop([room EXCEPT !.players = Put(@, s, NewPlayer(s, username)),
                               !.scores = SetScore(@, s, 0),
                               !.status = "PLAYING"], h)

\* joinRoomInternal on an existing room: the room object after the call
Joined(room, s, username, h) ==
    LET r1 == [room EXCEPT !.players = Put(@, s, NewPlayer(s, username)),
                           !.scores = SetScore(@, s, 0)]
    IN  IF r1.status = "WAITING"
        THEN startGameLoop([r1 EXCEPT !.status = "PLAYING"], h)
        ELSE r1

\* the interval timers after a join that turned room before into room after
IntervalsAfterJoin(before, after, o, roomId) ==
    IF after.timerInterval # before.timerInterval
    THEN intervals \cup {[ h |-> after.timerInterval, obj |-> o,
                          roomId |-> roomId, left |-> INTERVAL_PERIOD,
                          age |-> 0 ]}
    ELSE intervals

\* the events of joinRoomInternal
JoinEvents(after, s, username, tbl, hp) ==
    << Ev("playerJoined", ToRoom(after.id),
          [ id |-> s, name |-> username, currentPlayers |-> after.players,
            timeLeft |-> after.timeLeft ]),
       Ev("roomListUpdate", ToAll, getRoomList(tbl, hp)) >>

\* data.username || 'Anonymous'
NameOr(username) == IF username = "" THEN "Anonymous" ELSE username

\* data.duration || 5
DurationOr(duration) == IF duration[1] = 0 THEN DEFAULT_DURATION ELSE duration

\* the room id createRoom settles on before it looks at the table again
FirstRoomId(customId, u1) ==
    IF customId # << >> THEN CustomRoomId(customId) ELSE GeneratedRoomId(u1)

\* the room id createRoom uses
NewRoomId(customId, u1, u2) ==
    IF RoomAt(FirstRoomId(customId, u1)) # NoRoom /\ customId = << >>
    THEN GeneratedRoomId(u2) ELSE FirstRoomId(customId, u1)

RefusedNever(customId, u1) == FALSE

\* createRoom refuses a requested id that is in use
Refused(customId, u1) ==
    RoomAt(FirstRoomId(customId, u1)) # NoRoom /\ customId # << >>

\* the room object createRoom leaves behind
CreatedRoom(s, customId, duration, name, u1, u2) ==
    Joined(NewRoom(NewRoomId(customId, u1, u2), DurationOr(duration)), s,
           NameOr(name), nIntervals + 1)

CreateRoomOut(s, customId, duration, name, u1, u2) ==
    LET roomId == NewRoomId(customId, u1, u2)
        after == CreatedRoom(s, customId, duration, name, u1, u2)
        tbl == [rooms EXCEPT ![roomId] = Len(heap) + 1]
        hp == Append(heap, after)
    IN  IF Refused(customId, u1)
        THEN << Ev("error", ToSocket(s), "Room ID already exists") >>
        ELSE << Ev("roomCreated", ToSocket(s), roomId) >>
                 \o JoinEvents(after, s, NameOr(name), tbl, hp)
                 \o << Ev("roomListUpdate", ToAll, getRoomList(tbl, hp)) >>

\* socket.on('createRoom') with an object payload; u1 and u2 are the values
\* the two uuidv4() calls return
CreateRoom(s, customId, duration, name, u1, u2) ==
    LET roomId == NewRoomId(customId, u1, u2)
        o == Len(heap) + 1
        fresh == NewRoom(roomId, DurationOr(duration))
        after == CreatedRoom(s, customId, duration, name, u1, u2)
    IN  /\ conn[s] = "open"
        /\ IF Refused(customId, u1)
           THEN UNCHANGED serverVars
           ELSE /\ Len(heap) < MaxRooms
                /\ rooms' = [rooms EXCEPT ![roomId] = o]
                /\ heap' = Append(heap, after)
                /\ gameOvers' = Append(gameOvers, 0)
                /\ intervals' = IntervalsAfterJoin(fresh, after, o, roomId)
                /\ nIntervals' = IF intervals' # intervals THEN nIntervals + 1
                                 ELSE nIntervals
                /\ UNCHANGED << objectHealth, conn, respawns, expiries, nItems, removed,
                                collected >>

JoinRoomOut(s, roomId, name) ==
    LET o == RoomAt(roomId)
        after == Joined(heap[o], s, NameOr(name), nIntervals + 1)
    IN  IF o = NoRoom
        THEN << Ev("error", ToSocket(s), "Room not found") >>
        ELSE JoinEvents(after, s, NameOr(name), rooms, [heap EXCEPT ![o] = after])

\* socket.on('joinRoom') with an object payload
JoinRoom(s, roomId, name) ==
    LET o == RoomAt(roomId)
        after == Joined(heap[o], s, NameOr(name), nIntervals + 1)
    IN  /\ conn[s] = "open"
        /\ IF o = NoRoom
           THEN UNCHANGED << heap, intervals, nIntervals >>
           ELSE /\ heap' = [heap EXCEPT ![o] = after]
                /\ intervals' = IntervalsAfterJoin(heap[o], after, o, roomId)
                /\ nIntervals' = IF intervals' # intervals THEN nIntervals + 1
                                 ELSE nIntervals
        /\ UNCHANGED << objectHealth, conn, rooms, respawns, expiries, nItems, removed,
                        collected, gameOvers >>

(***************************************************************************)
(* The countdown                                                           *)
(***************************************************************************)
NullId == "null"

\* a loop that lets a later entry with an equal score take the lead
RECURSIVE WinnerFromLast(_, _, _, _)
WinnerFromLast(scores, players, i, acc) ==
    IF i > Len(scores) THEN acc
    ELSE LET pid == scores[i].id
             score == scores[i].score
         IN  IF score >= acc.maxScore
             THEN WinnerFromLast(scores, players, i + 1,
                                 [ maxScore   |-> score,
                                   winnerId   |-> pid,
                                   winnerName |-> IF pid \in DOMAIN players
                                                  THEN players[pid].name
                                                  ELSE acc.winnerName ])
             ELSE WinnerFromLast(scores, players, i + 1, acc)

\* the loop of finishGame over Object.entries(room.scores) from entry i on
RECURSIVE WinnerFrom(_, _, _, _)
WinnerFrom(scores, players, i, acc) ==
    IF i > Len(scores) THEN acc
    ELSE LET pid == scores[i].id
             score == scores[i].score
         IN  IF score > acc.maxScore
             THEN WinnerFrom(scores, players, i + 1,
                             [ maxScore   |-> score,
                               winnerId   |-> pid,
                               winnerName |-> IF pid \in DOMAIN players
                                              THEN players[pid].name
                                              ELSE acc.winnerName ])
             ELSE WinnerFrom(scores, players, i + 1, acc)

Winner(room) ==
    WinnerFrom(room.scores, room.players, 1,
               [maxScore |-> -1, winnerId |-> NullId, winnerName |-> "Unknown"])

\* clearInterval(h)
clearInterval(timers, h) == {t \in timers : t.h # h}

GameOverEvent(room) ==
    Ev("gameOver", ToRoom(room.id),
       [ winnerId |-> Winner(room).winnerId,
         winnerName |-> Winner(room).winnerName,
         scores |-> room.scores ])

\* the interval timers when the callback of timer t has run and t waits for
\* its next period
Rearmed(t) ==
    (intervals \ {t}) \cup {[t EXCEPT !.left = INTERVAL_PERIOD, !.age = 0]}

\* a finishGame that leaves the interval running
KeptRunning(t) == Rearmed(t)

\* clearInterval(room.timerInterval) in finishGame(roomId), called by timer t
Stopped(t) ==
    clearInterval(Rearmed(t), heap[RoomAt(t.roomId)].timerInterval)

\* room.timeLeft -= 1 in the callback of timer t
Counted(t) == [heap EXCEPT ![t.obj].timeLeft = @ - 1]

\* the callback of timer t goes on to finishGame
TimeUp(t) == Counted(t)[t.obj].timeLeft <= 0

\* finishGame(roomId) after the count: the room objects
Finished(t) == [Counted(t) EXCEPT ![RoomAt(t.roomId)].status = "FINISHED"]

CountdownOut(t) ==
    IF RoomAt(t.roomId) = NoRoom THEN << >>
    ELSE << Ev("timeUpdate", ToRoom(t.roomId), Counted(t)[t.obj].timeLeft) >>
         \o (IF TimeUp(t)
             THEN << GameOverEvent(Finished(t)[RoomAt(t.roomId)]) >>
             ELSE << >>)

\* the callback of setInterval in startGameLoop, run for a due timer t;
\* finishGame(roomId) is the branch taken when the time is up
CountdownFire(t) ==
    LET f == RoomAt(t.roomId)
    IN  /\ t \in intervals
        /\ t.left = 0
        /\ IF f = NoRoom
           THEN /\ intervals' = Rearmed(t)
                /\ UNCHANGED << heap, gameOvers >>
           ELSE IF TimeUp(t)
           THEN /\ heap' = Finished(t)
                /\ intervals' = Stopped(t)
                /\ gameOvers' = [gameOvers EXCEPT ![f] = @ + 1]
           ELSE /\ heap' = Counted(t)
                /\ intervals' = Rearmed(t)
                /\ UNCHANGED gameOvers
        /\ UNCHANGED << objectHealth, conn, rooms, nIntervals, respawns, expiries, nItems,
                        removed, collected >>

(***************************************************************************)
(* The passage of time                                                     *)
(***************************************************************************)
Elapse(t) == [t EXCEPT !.left = @ - 1, !.age = @ + 1]

NothingDue ==
    /\ \A t \in intervals : t.left > 0
    /\ \A i \in 1..Len(respawns) : respawns[i].left > 0
    /\ \A t \in expiries : t.left > 0

\* 1000 ms pass
Tick ==
    /\ NothingDue
    /\ intervals # {} \/ respawns # << >> \/ expiries # {}
    /\ intervals' = {Elapse(t) : t \in intervals}
    /\ respawns' = [i \in 1..Len(respawns) |-> Elapse(respawns[i])]
    /\ expiries' = {Elapse(t) : t \in expiries}
    /\ UNCHANGED << objectHealth, conn, rooms, heap, nIntervals, nItems, removed, collected,
                    gameOvers >>

(***************************************************************************)
(* Game events                                                             *)
(***************************************************************************)
\* a playerMove that does not test the status of the room
MoveAppliesAnyStatus(s, roomId) ==
    /\ RoomAt(roomId) # NoRoom
    /\ s \in DOMAIN heap[RoomAt(roomId)].players

\* the test of playerMove
MoveApplies(s, roomId) ==
    /\ RoomAt(roomId) # NoRoom
    /\ heap[RoomAt(roomId)].status = "PLAYING"
    /\ s \in DOMAIN heap[RoomAt(roomId)].players

PlayerMoveOut(s, roomId, m) ==
    IF MoveApplies(s, roomId)
    THEN << Ev("playerMoved", ToOthers(roomId, s),
               [id |-> s, x |-> m.x, y |-> m.y, angle |-> m.angle]) >>
    ELSE << >>

\* socket.on('playerMove')
PlayerMove(s, roomId, m) ==
    /\ conn[s] = "open"
    /\ IF MoveApplies(s, roomId)
       THEN heap' = [heap EXCEPT ![RoomAt(roomId)].players[s].x = m.x,
                                 ![RoomAt(roomId)].players[s].y = m.y,
                                 ![RoomAt(roomId)].players[s].angle = m.angle]
       ELSE UNCHANGED heap
    /\ UNCHANGED << objectHealth, conn, rooms, intervals, nIntervals, respawns, expiries,
                    nItems, removed, collected, gameOvers >>

PlayerShootOut(s, roomId) ==
    << Ev("otherPlayerShot", ToOthers(roomId, s), [id |-> s]) >>

\* socket.on('playerShoot')
PlayerShoot(s, roomId) ==
    /\ conn[s] = "open"
    /\ UNCHANGED serverVars

\* a playerHit that does not test the status of the room
HitAppliesAnyStatus(roomId, victimId) ==
    /\ RoomAt(roomId) # NoRoom
    /\ victimId \in DOMAIN heap[RoomAt(roomId)].players

\* the tests of playerHit before the damage
HitApplies(roomId, victimId) ==
    /\ RoomAt(roomId) # NoRoom
    /\ heap[RoomAt(roomId)].status = "PLAYING"
    /\ victimId \in DOMAIN heap[RoomAt(roomId)].players

\* room.players[victimId] is not a player, and still not undefined
HitsInherited(roomId, victimId) ==
    /\ RoomAt(roomId) # NoRoom
    /\ heap[RoomAt(roomId)].status = "PLAYING"
    /\ victimId \notin DOMAIN heap[RoomAt(roomId)].players
    /\ victimId \in Inherited

\* a damage that stops at 0
DamagedClamped(room, victimId, damage) ==
    [room EXCEPT !.players[victimId].health =
                     IF @ - damage < 0 THEN 0 ELSE @ - damage]

\* victim.health -= damage
Damaged(room, victimId, damage) ==
    [room EXCEPT !.players[victimId].health = @ - damage]

\* the test of the death branch, made after the damage
IsLethal(room, victimId) == room.players[victimId].health <= 0

\* a death branch that scores nothing
KilledUnscored(room, shooterId, victimId) ==
    [room EXCEPT !.players[victimId].isDead = TRUE]

\* the death branch of playerHit: the score of the shooter, if it has one,
\* and the isDead flag
Killed(room, shooterId, victimId) ==
    LET scored == IF HasScore(room.scores, shooterId)
                  THEN SetScore(room.scores, shooterId,
                                ScoreOf(room.scores, shooterId) + 1)
                  ELSE room.scores
    IN  [room EXCEPT !.scores = scored, !.players[victimId].isDead = TRUE]

\* a death branch that announces the death with the health update alone
DeathEventsWithoutDied(room, roomId, shooterId, victimId) ==
    << Ev("healthUpdate", ToRoom(roomId),
          [id |-> victimId, health |-> 0, isDead |-> TRUE]) >>

\* the events of the death branch
DeathEvents(room, roomId, shooterId, victimId) ==
    << Ev("healthUpdate", ToRoom(roomId),
          [id |-> victimId, health |-> 0, isDead |-> TRUE]),
       Ev("playerDied", ToRoom(roomId),
          [victimId |-> victimId, killerId |-> shooterId, scores |-> room.scores]) >>

\* the test that guards the item spawn
SpawnsItem(room, victimId) ==
    victimId \in DOMAIN room.players /\ room.players[victimId].health <= 0

\* an item that is left at the origin of the map
ItemDataAtOrigin(itemId, victim, itemType) ==
    [id |-> itemId, x |-> 0, y |-> 0, type |-> itemType]

\* the item a death leaves behind
ItemData(itemId, victim, itemType) ==
    [id |-> itemId, x |-> victim.x, y |-> victim.y, type |-> itemType]

\* the room after the damage and, if it is deadly, the death branch
Struck(roomId, damage, shooterId, victimId) ==
    LET hurt == Damaged(heap[RoomAt(roomId)], victimId, damage)
    IN  IF IsLethal(hurt, victimId) THEN Killed(hurt, shooterId, victimId)
        ELSE hurt

\* the hit schedules a respawn
Dies(roomId, damage, victimId) ==
    IsLethal(Damaged(heap[RoomAt(roomId)], victimId, damage), victimId)

\* the hit spawns an item
Drops(roomId, damage, shooterId, victimId) ==
    SpawnsItem(Struck(roomId, damage, shooterId, victimId), victimId)

\* the item of the hit; its id is the number of the spawn
Dropped(roomId, damage, shooterId, victimId, itemType) ==
    ItemData(nItems + 1,
             Struck(roomId, damage, shooterId, victimId).players[victimId],
             itemType)

PlayerHitOut(roomId, damage, shooterId, victimId, itemType) ==
    IF HitsInherited(roomId, victimId)
    THEN << Ev("healthUpdate", ToRoom(roomId),
               [id |-> victimId, health |-> "NaN"]) >>
    ELSE IF ~HitApplies(roomId, victimId) THEN << >>
    ELSE << Ev("healthUpdate", ToRoom(roomId),
               [ id |-> victimId,
                 health |-> Damaged(heap[RoomAt(roomId)], victimId,
                                    damage).players[victimId].health ]) >>
         \o (IF Dies(roomId, damage, victimId)
             THEN DeathEvents(Struck(roomId, damage, shooterId, victimId),
                              roomId, shooterId, victimId)
             ELSE << >>)
         \o (IF Drops(roomId, damage, shooterId, victimId)
             THEN << Ev("itemSpawn", ToRoom(roomId),
                        Dropped(roomId, damage, shooterId, victimId, itemType)) >>
             ELSE << >>)

\* socket.on('playerHit'), sent by any connected socket (the handler does not
\* use the sender); itemType is the type Math.random() selects
PlayerHit(roomId, damage, shooterId, victimId, itemType) ==
    LET o == RoomAt(roomId)
        dies == Dies(roomId, damage, victimId)
        drops == Drops(roomId, damage, shooterId, victimId)
        item == Dropped(roomId, damage, shooterId, victimId, itemType)
    IN  /\ \E s \in Sockets : conn[s] = "open"
        /\ IF ~HitApplies(roomId, victimId)
           THEN UNCHANGED << heap, respawns, expiries, nItems, removed,
                             collected >>
           ELSE /\ heap' =
                       [heap EXCEPT ![o] =
                           IF drops
                           THEN [Struck(roomId, damage, shooterId, victimId)
                                     EXCEPT !.items = Put(@, item.id, item)]
                           ELSE Struck(roomId, damage, shooterId, victimId)]
                /\ respawns' =
                       IF dies
                       THEN Append(respawns, [ obj |-> o, roomId |-> roomId,
                                               victimId |-> victimId,
                                               left |-> RESPAWN_DELAY, age |-> 0 ])
                       ELSE respawns
                /\ expiries' =
                       IF drops
                       THEN expiries \cup {[ obj |-> o, roomId |-> roomId,
                                             itemId |-> item.id,
                                             left |-> ITEM_TIMEOUT, age |-> 0 ]}
                       ELSE expiries
                /\ nItems' = IF drops THEN nItems + 1 ELSE nItems
                /\ removed' = IF drops THEN Append(removed, 0) ELSE removed
                /\ collected' = IF drops THEN Append(collected, 0) ELSE collected
        /\ objectHealth' = IF HitsInherited(roomId, victimId) THEN "NaN"
                           ELSE objectHealth
        /\ UNCHANGED << conn, rooms, intervals, nIntervals, gameOvers >>

\* the test of the respawn callback for the oldest timer
\* a respawn that asks, as playerHit does, for a room that is PLAYING
RespawnWhilePlaying ==
    /\ RoomAt(Head(respawns).roomId) # NoRoom
    /\ heap[RoomAt(Head(respawns).roomId)].status = "PLAYING"
    /\ Head(respawns).victimId \in DOMAIN heap[RoomAt(Head(respawns).roomId)].players

RespawnApplies ==
    /\ RoomAt(Head(respawns).roomId) # NoRoom
    /\ Head(respawns).victimId \in DOMAIN heap[RoomAt(Head(respawns).roomId)].players

\* a respawn that revives the victim where it died
RespawnedInPlace(room, victimId, k) ==
    [room EXCEPT !.players[victimId].health = START_HEALTH,
                 !.players[victimId].isDead = FALSE]

\* the respawn of the victim at SAFE_SPAWNS[k]
Respawned(room, victimId, k) ==
    [room EXCEPT !.players[victimId].health = START_HEALTH,
                 !.players[victimId].isDead = FALSE,
                 !.players[victimId].x = SAFE_SPAWNS[k].x,
                 !.players[victimId].y = SAFE_SPAWNS[k].y]

RespawnEvents(room, roomId, victimId) ==
    << Ev("healthUpdate", ToRoom(roomId),
          [id |-> victimId, health |-> START_HEALTH, isDead |-> FALSE]),
       Ev("playerMoved", ToRoom(roomId),
          [ id |-> victimId, x |-> room.players[victimId].x,
            y |-> room.players[victimId].y, angle |-> 0 ]),
       Ev("playerRespawn", ToRoom(<<victimId>>),
          [x |-> room.players[victimId].x, y |-> room.players[victimId].y]) >>

\* a respawn callback that announces the respawn before it looks at the room
RespawnOutUnchecked(k) ==
    << Ev("healthUpdate", ToRoom(Head(respawns).roomId),
          [id |-> Head(respawns).victimId, health |-> START_HEALTH,
           isDead |-> FALSE]) >>

RespawnOut(k) ==
    LET t == Head(respawns)
    IN  IF ~RespawnApplies THEN << >>
        ELSE RespawnEvents(Respawned(heap[RoomAt(t.roomId)], t.victimId, k),
                           t.roomId, t.victimId)

\* the respawn callback of playerHit, run for the oldest timer when it is due;
\* k is the index Math.random() selects
Respawn(k) ==
    LET t == Head(respawns)
    IN  /\ respawns # << >>
        /\ t.left = 0
        /\ respawns' = Tail(respawns)
        /\ IF ~RespawnApplies
           THEN UNCHANGED heap
           ELSE heap' = [heap EXCEPT ![RoomAt(t.roomId)] =
                                         Respawned(@, t.victimId, k)]
        /\ UNCHANGED << objectHealth, conn, rooms, intervals, nIntervals, expiries, nItems,
                        removed, collected, gameOvers >>

\* an item timeout callback that does not look at the item map
ExpireAlways(t) == TRUE

\* the test of the item timeout callback
ExpireApplies(t) == t.itemId \in DOMAIN heap[t.obj].items

ItemExpireOut(t) ==
    IF ExpireApplies(t) THEN << Ev("itemRemoved", ToRoom(t.roomId), t.itemId) >>
    ELSE << >>

\* the item timeout callback of playerHit, run for a due timer t
ItemExpire(t) ==
    /\ t \in expiries
    /\ t.left = 0
    /\ expiries' = expiries \ {t}
    /\ IF ExpireApplies(t)
       THEN /\ heap' = [heap EXCEPT ![t.obj].items = Delete(@, t.itemId)]
            /\ removed' = [removed EXCEPT ![t.itemId] = @ + 1]
       ELSE UNCHANGED << heap, removed >>
    /\ UNCHANGED << objectHealth, conn, rooms, intervals, nIntervals, respawns, nItems,
                    collected, gameOvers >>

\* a pickup that leaves the item in the map
TakenKept(roomId, itemId) == heap

\* delete room.items[itemId] in pickupItem
Taken(roomId, itemId) ==
    [heap EXCEPT ![RoomAt(roomId)].items = Delete(@, itemId)]

\* the tests of pickupItem
PickupApplies(roomId, itemId) ==
    /\ RoomAt(roomId) # NoRoom
    /\ itemId \in DOMAIN heap[RoomAt(roomId)].items

\* room.items[itemId] is not an item, and still not undefined
PicksInherited(roomId, itemId) ==
    /\ RoomAt(roomId) # NoRoom
    /\ itemId \notin DOMAIN heap[RoomAt(roomId)].items
    /\ itemId \in InheritedItemIds

PickupItemOut(s, roomId, itemId) ==
    IF PicksInherited(roomId, itemId)
    THEN << Ev("itemCollected", ToSocket(s), [type |-> "undefined"]),
            Ev("itemRemoved", ToRoom(roomId), itemId) >>
    ELSE IF PickupApplies(roomId, itemId)
    THEN << Ev("itemCollected", ToSocket(s),
               [type |-> heap[RoomAt(roomId)].items[itemId].type]),
            Ev("itemRemoved", ToRoom(roomId), itemId) >>
    ELSE << >>

\* socket.on('pickupItem')
PickupItem(s, roomId, itemId) ==
    /\ conn[s] = "open"
    /\ IF PickupApplies(roomId, itemId)
       THEN /\ heap' = Taken(roomId, itemId)
            /\ removed' = [removed EXCEPT ![itemId] = @ + 1]
            /\ collected' = [collected EXCEPT ![itemId] = @ + 1]
       ELSE UNCHANGED << heap, removed, collected >>
    /\ UNCHANGED << objectHealth, conn, rooms, intervals, nIntervals, respawns, expiries,
                    nItems, gameOvers >>

\* the rooms of the table that hold socket s, as room objects
RoomsOf(s) ==
    {o \in 1..Len(heap) : rooms[heap[o].id] = o /\ s \in DOMAIN heap[o].players}

\* the first room of the loop of disconnect that holds s: the keys of the
\* room table are visited in the order the rooms were created
FirstRoomOf(s) == CHOOSE o \in RoomsOf(s) : \A q \in RoomsOf(s) : o <= q

\* the room objects after delete room.players[socket.id]
Left(s) == [heap EXCEPT ![FirstRoomOf(s)].players = Delete(@, s)]

\* the test of the cleanup of disconnect
Emptied(s) == DOMAIN Left(s)[FirstRoomOf(s)].players = {}

\* the room table after the cleanup
TableAfter(s) ==
    IF Emptied(s) THEN [rooms EXCEPT ![heap[FirstRoomOf(s)].id] = NoRoom]
    ELSE rooms

\* a cleanup that does not clear the interval
IntervalsKept(s) == intervals

\* the interval timers after the cleanup
IntervalsAfter(s) ==
    IF Emptied(s)
    THEN clearInterval(intervals, heap[FirstRoomOf(s)].timerInterval)
    ELSE intervals

DisconnectOut(s) ==
    IF RoomsOf(s) = {} THEN << >>
    ELSE << Ev("playerLeft", ToRoom(heap[FirstRoomOf(s)].id), s),
            Ev("roomListUpdate", ToAll, getRoomList(TableAfter(s), Left(s))) >>

\* socket.on('disconnect')
Disconnect(s) ==
    /\ conn[s] = "open"
    /\ conn' = [conn EXCEPT ![s] = "closed"]
    /\ IF RoomsOf(s) = {}
       THEN UNCHANGED << rooms, heap, intervals >>
       ELSE /\ heap' = Left(s)
            /\ rooms' = TableAfter(s)
            /\ intervals' = IntervalsAfter(s)
    /\ UNCHANGED << objectHealth, nIntervals, respawns, expiries, nItems, removed,
                    collected, gameOvers >>

(***************************************************************************)
(* Specifications                                                          *)
(***************************************************************************)
\* uuidv4() does not return a value in use when it is called a second time
SecondUuidUnused(customId, u1, u2) ==
    (customId = << >> /\ RoomAt(GeneratedRoomId(u1)) # NoRoom)
        => RoomAt(GeneratedRoomId(u2)) = NoRoom

ItemTypes == {ITEM_HEALTH, ITEM_AMMO}

\* the room ids the clients of a game name; before the room is created and
\* after it is deleted the id is one that no room has
GameRooms == {CustomRoomId(c) : c \in RequestedIds \ {<< >>}}

\* a hit that spawns an item is taken only while fewer than max were spawned
WithinItems(max, roomId, damage, victimId) ==
    (HitApplies(roomId, victimId) /\ Dies(roomId, damage, victimId))
        => nItems < max

\* the handlers of the lobby, for clients that are not modelled: the local
\* client stays as it is
Lobby(customIds, durations, roomIds) ==
    \/ \E s \in Sockets : Connect(s) /\ UNCHANGED clientVars
    \/ \E s \in Sockets, c \in customIds, d \in durations,
          u1 \in Uuids, u2 \in Uuids :
            /\ SecondUuidUnused(c, u1, u2)
            /\ CreateRoom(s, c, d, UsernameOf[s], u1, u2)
            /\ UNCHANGED clientVars
    \/ \E s \in Sockets, r \in roomIds :
            JoinRoom(s, r, UsernameOf[s]) /\ UNCHANGED clientVars
    \/ \E s \in Sockets : Disconnect(s) /\ UNCHANGED clientVars
    \/ \E s \in Sockets : RequestRoomList(s) /\ UNCHANGED clientVars

Events(damages, maxItems) ==
    \/ \E s \in Sockets, r \in GameRooms, m \in Moves :
            PlayerMove(s, r, m) /\ UNCHANGED clientVars
    \/ \E r \in GameRooms, d \in damages, sh \in PlayerIds, v \in PlayerIds,
          ty \in ItemTypes :
            /\ WithinItems(maxItems, r, d, v)
            /\ PlayerHit(r, d, sh, v, ty)
            /\ UNCHANGED clientVars
    \/ \E s \in Sockets, r \in GameRooms, i \in 1..maxItems :
            PickupItem(s, r, i) /\ UNCHANGED clientVars
    \/ \E s \in Sockets, r \in GameRooms :
            PlayerShoot(s, r) /\ UNCHANGED clientVars

Countdown ==
    \/ \E t \in intervals : CountdownFire(t) /\ UNCHANGED clientVars
    \/ Tick /\ UNCHANGED clientVars

Timeouts ==
    \/ \E k \in SpawnPicks : Respawn(k) /\ UNCHANGED clientVars
    \/ \E t \in expiries : ItemExpire(t) /\ UNCHANGED clientVars

\* the server with short matches
Next ==
    \/ Lobby(RequestedIds \ {<< >>}, ShortDurations, GameRooms)
    \/ Events(Damages, MaxItems)
    \/ Countdown
    \/ Timeouts

Spec == Init /\ [][Next]_vars

\* the events of the clients before the first timer is due
NextBurst ==
    \/ Lobby(RequestedIds \ {<< >>}, ShortDurations, GameRooms)
    \/ Events(Damages, MaxBurstItems)

SpecBurst == Init /\ [][NextBurst]_vars

\* the lobby and the countdown alone, with matches of whole minutes
NextMatch ==
    Lobby(RequestedIds \ {<< >>}, MatchDurations, GameRooms) \/ Countdown

SpecMatch == Init /\ [][NextMatch]_vars

\* the lobby and the countdown alone, with requested and generated room ids
NextLobby == Lobby(LobbyIds, ShortDurations, RoomIds) \/ Countdown

SpecLobby == Init /\ [][NextLobby]_vars

\* the same, with a second uuidv4() that may return any value, one in use
\* included; the interval of a room that was replaced in the table is never
\* cleared, and time is followed until a room is MaxOvertime below 0
NextUuid ==
    \/ Lobby(RequestedIds, ShortDurations, RoomIds)
    \/ (\A o \in 1..Len(heap) : heap[o].timeLeft > -MaxOvertime) /\ Countdown
    \/ \E s \in Sockets, d \in ShortDurations, u1 \in Uuids, u2 \in Uuids :
           CreateRoom(s, << >>, d, UsernameOf[s], u1, u2) /\ UNCHANGED clientVars

SpecUuid == Init /\ [][NextUuid]_vars

\* the events of the clients, with ids that name an inherited property
NextInherited ==
    \/ Lobby(RequestedIds \ {<< >>}, ShortDurations, GameRooms)
    \/ Events(Damages, MaxItems)
    \/ \E r \in GameRooms, d \in Damages, sh \in PlayerIds, v \in Inherited,
          ty \in ItemTypes : PlayerHit(r, d, sh, v, ty) /\ UNCHANGED clientVars
    \/ \E s \in Sockets, r \in GameRooms, i \in InheritedItemIds :
           PickupItem(s, r, i) /\ UNCHANGED clientVars

SpecInherited == Init /\ [][NextInherited]_vars

(***************************************************************************)
(* The Game component of the local client                                  *)
(***************************************************************************)
\* constants.ts: the clip, the reserve, and the weapons (an automatic rifle
\* and a semi-automatic pistol); times are in units of the client clock
CLIP_SIZE == 3
MAX_RESERVE == 7
START_AMMO == 3
START_RESERVE == 3
RELOAD_TIME == 2
WEAPONS ==
    << [fireRate |-> 1, isAuto |-> TRUE, damage |-> 50, headshotMultiplier |-> 2],
       [fireRate |-> 1, isAuto |-> FALSE, damage |-> 50, headshotMultiplier |-> 2] >>
MAX_ENEMIES == 2
\* the heal of a health orb, and the points of a kill
HEAL == 30
KILL_POINTS == 100

\* reload timers pending at once
MaxReloads == 2
\* items the single-player game ever drops
MaxLoot == 2
\* messages of the local client that wait for the server at once
MaxOutbox == 1
\* the enemies that spawn in a game
MaxSpawns == 3

\* the values of the state of the render in which a callback was created:
\* what the callback reads when it names one of them
Seen(g) ==
    [ isReloading |-> g.isReloading, isInfiniteAmmo |-> g.isInfiniteAmmo,
      isPaused |-> g.isPaused, isGameOver |-> g.isGameOver ]

\* the Game component after its first render; its effects have captured the
\* callbacks of that render: tick is what the animation frame calls, key what
\* the keydown listener calls
Game(isMultiplayer) ==
    LET g == [ mounted |-> TRUE, isMultiplayer |-> isMultiplayer,
               health |-> START_HEALTH, ammo |-> START_AMMO,
               ammoReserve |-> START_RESERVE, weaponIndex |-> 0,
               isReloading |-> FALSE, isInfiniteAmmo |-> ~isMultiplayer,
               isPaused |-> FALSE, isGameOver |-> FALSE,
               isMouseDown |-> FALSE,
               sinceShot |-> WEAPONS[2].fireRate, reloads |-> << >>,
               items |-> << >>, itemIdCounter |-> 0, score |-> 0,
               enemyIdCounter |-> 0,
               timeLeft |-> 300, gameOverData |-> << >> ]
    IN  [ f \in DOMAIN g \cup {"tick", "key"} |->
            IF f \in {"tick", "key"} THEN Seen(g) ELSE g[f] ]

\* the component after a render that follows state g0: the effect of the
\* animation frame runs again when isPaused has changed, the effect of the
\* keyboard when isGameOver has changed, and no other state change renews
\* the callbacks they hold
Rendered(g0, g1) ==
    [g1 EXCEPT !.tick = IF g1.isPaused # g0.isPaused THEN Seen(g1) ELSE g0.tick,
               !.key = IF g1.isGameOver # g0.isGameOver THEN Seen(g1) ELSE g0.key]

\* reload() of the render c: the timer it starts is the last of g.reloads
reload(g, c) ==
    IF \/ c.isInfiniteAmmo \/ c.isReloading
       \/ g.ammo = CLIP_SIZE \/ g.ammoReserve = 0
    THEN g
    ELSE IF g.health <= 0 THEN g
    ELSE [g EXCEPT !.isReloading = TRUE, !.reloads = Append(@, RELOAD_TIME)]

\* a callback that fills the clip with the rounds that were missing when
\* it runs, whatever the reserve holds
reloadedWhole(g) ==
    [g EXCEPT !.ammo = CLIP_SIZE, !.ammoReserve = @ - (CLIP_SIZE - g.ammo),
              !.isReloading = FALSE, !.reloads = Tail(@)]

\* the callback of the timer of reload()
reloaded(g) ==
    LET needed == CLIP_SIZE - g.ammo
        available == Min(needed, g.ammoReserve)
    IN  [g EXCEPT !.ammo = @ + available, !.ammoReserve = @ - available,
                  !.isReloading = FALSE, !.reloads = Tail(@)]

\* shoot() of the render c gets past its early returns: the shot is fired
fires(g, c) ==
    /\ g.health > 0 /\ ~c.isReloading
    /\ g.sinceShot >= WEAPONS[g.weaponIndex + 1].fireRate
    /\ c.isInfiniteAmmo \/ g.ammo > 0

\* shoot() of the render c, up to the hit test
shoot(g, c) ==
    IF fires(g, c)
    THEN [g EXCEPT !.ammo = IF c.isInfiniteAmmo THEN @ ELSE @ - 1,
                   !.sinceShot = 0]
    ELSE IF /\ g.health > 0 /\ ~c.isReloading
            /\ g.sinceShot >= WEAPONS[g.weaponIndex + 1].fireRate
            /\ g.ammoReserve > 0
    THEN reload(g, c)
    ELSE g

\* the damage of a shot of the weapon in hand
Dmg(g, isHead) ==
    IF isHead
    THEN WEAPONS[g.weaponIndex + 1].damage
             * WEAPONS[g.weaponIndex + 1].headshotMultiplier
    ELSE WEAPONS[g.weaponIndex + 1].damage

\* the pickup of an item of type ty: the ammo box is the else branch
picked(g, ty) ==
    IF ty = ITEM_HEALTH THEN [g EXCEPT !.health = Min(START_HEALTH, @ + HEAL)]
    ELSE [g EXCEPT !.ammoReserve = Min(MAX_RESERVE, @ + CLIP_SIZE * 2)]

(***************************************************************************)
(* The socket handlers of the local client                                 *)
(***************************************************************************)
\* the value of a callback field: "null", "lobby" for the callback of the
\* mounted Lobby, "game" for a callback of the mounted Game, and "stale"
\* for a callback of a Game that is unmounted, whose state nobody sees

\* the effect [isMultiplayer] of Game at mount. With strict, React runs the
\* effect, its cleanup and the effect again (StrictMode in a development
\* build); the cleanup is the first return of the effect
Mounted(n, isMultiplayer, strict) ==
    LET cleaned == [n.on EXCEPT !.onPlayerRespawn = "null",
                                !.onPlayerDied = "null",
                                !.onItemCollected = "game",
                                !.onTimeUpdate = "game",
                                !.onGameOver = "game"]
        before == IF strict THEN cleaned ELSE n.on
    IN  [n EXCEPT !.on =
            IF isMultiplayer
            THEN [before EXCEPT !.onPlayerRespawn = "game",
                                !.onPlayerDied = "game",
                                !.onHealthUpdate = "game",
                                !.onItemSpawn = "game",
                                !.onItemRemoved = "game",
                                !.onItemCollected = "game"]
            ELSE before]

\* the cleanup of the same effect when Game unmounts: the callbacks it
\* assigns, and those it leaves, belong to the component that is gone
Unmounted(n) ==
    [n EXCEPT !.on =
        [h \in DOMAIN n.on |->
            IF h \in {"onPlayerRespawn", "onPlayerDied"} THEN "null"
            ELSE IF h \in {"onItemCollected", "onTimeUpdate", "onGameOver"}
            THEN "stale"
            ELSE IF n.on[h] = "game" THEN "stale" ELSE n.on[h]]]

\* socket through which the server reaches the local client: its own room,
\* the rooms it has joined, and every broadcast
Hears(n, to) ==
    \/ to[1] = "all"
    \/ to[1] = "socket" /\ to[2] = Me
    \/ to[1] = "room" /\ to[2] \in n.joined /\ (Len(to) = 4 => to[4] # Me)

\* this.socket.on('playerJoined'); onRoomJoined is the callback of Lobby,
\* which makes App replace Lobby by a multiplayer Game
playerJoined(c, p, strict) ==
    LET mine == p.id = c.n.playerId
        n1 == [c.n EXCEPT !.players = p.currentPlayers,
                          !.roomId = IF ~mine THEN @
                                     ELSE IF "roomId" \in DOMAIN p
                                     THEN [is |-> "string", id |-> p.roomId]
                                     ELSE UndefinedRoomId]
        g1 == IF mine /\ p.timeLeft # 0 /\ c.n.on.onTimeUpdate = "game"
              THEN [c.g EXCEPT !.timeLeft = p.timeLeft] ELSE c.g
    IN  IF mine /\ c.n.on.onRoomJoined = "lobby"
        THEN [n |-> Mounted([n1 EXCEPT !.on.onRoomJoined = "null"], TRUE, strict),
              g |-> Game(TRUE)]
        ELSE [n |-> n1, g |-> g1]

\* this.socket.on('healthUpdate') and the onHealthUpdate of Game
healthUpdate(c, p) ==
    [n |-> IF p.id \in DOMAIN c.n.players
           THEN [c.n EXCEPT !.players[p.id] =
                    [f \in DOMAIN @ |->
                        IF f = "health" THEN p.health
                        ELSE IF f = "isDead" /\ "isDead" \in DOMAIN p
                        THEN p.isDead ELSE @[f]]]
           ELSE c.n,
     g |-> IF c.n.on.onHealthUpdate = "game" /\ p.id = c.n.playerId
           THEN [c.g EXCEPT !.health = p.health] ELSE c.g]

\* the handlers of the other events, with the callbacks of Game they call
OnEvent(c, e, strict) ==
    LET n == c.n
        g == c.g
        p == e.p
    IN  CASE e.ev = "playerJoined" -> playerJoined(c, p, strict)
          [] e.ev = "healthUpdate" -> healthUpdate(c, p)
          [] e.ev = "playerLeft" ->
                [c EXCEPT !.n.players = [k \in DOMAIN @ \ {p} |-> @[k]]]
          [] e.ev = "playerMoved" ->
                IF p.id \in DOMAIN n.players
                THEN [c EXCEPT !.n.players[p.id].x = p.x,
                               !.n.players[p.id].y = p.y,
                               !.n.players[p.id].angle = p.angle]
                ELSE c
          [] e.ev = "timeUpdate" ->
                [n |-> [n EXCEPT !.timeLeft = p],
                 g |-> IF n.on.onTimeUpdate = "game"
                       THEN [g EXCEPT !.timeLeft = p] ELSE g]
          [] e.ev = "gameOver" ->
                IF n.on.onGameOver = "game"
                THEN [c EXCEPT !.g = Rendered(g, [g EXCEPT !.gameOverData = <<p>>,
                                                           !.isPaused = TRUE])]
                ELSE c
          [] e.ev = "playerDied" ->
                IF /\ n.on.onPlayerDied = "game"
                   /\ HasScore(p.scores, n.playerId)
                   /\ ScoreOf(p.scores, n.playerId) # 0
                THEN [c EXCEPT !.g.score =
                         ScoreOf(p.scores, n.playerId) * KILL_POINTS]
                ELSE c
          [] e.ev = "playerRespawn" ->
                IF n.on.onPlayerRespawn = "game"
                THEN [c EXCEPT !.g.health = START_HEALTH,
                               !.g.ammo = START_AMMO,
                               !.g.ammoReserve = START_RESERVE]
                ELSE c
          [] e.ev = "itemSpawn" ->
                IF n.on.onItemSpawn = "game"
                THEN [c EXCEPT !.g.items =
                         Append(@, [id |-> p.id, type |-> p.type])]
                ELSE c
          [] e.ev = "itemRemoved" ->
                IF n.on.onItemRemoved = "game"
                THEN [c EXCEPT !.g.items = SelectSeq(@, LAMBDA i : i.id # p)]
                ELSE c
          [] e.ev = "itemCollected" ->
                IF n.on.onItemCollected = "game"
                THEN [c EXCEPT !.g = picked(g, p.type)]
                ELSE c
          [] OTHER -> c

\* the local client after the server has emitted evs, in this order
RECURSIVE Delivered(_, _, _)
Delivered(c, evs, strict) ==
    IF evs = << >> THEN c
    ELSE Delivered(IF Hears(c.n, Head(evs).to)
                   THEN OnEvent(c, Head(evs), strict) ELSE c,
                   Tail(evs), strict)

(***************************************************************************)
(* The messages of the local client                                        *)
(***************************************************************************)
\* this.socket.emit(ev, p): the message waits in net.outbox for the server
Emit(n, ev, p) == [n EXCEPT !.outbox = Append(@, [ev |-> ev, p |-> p])]

\* sendHit(victimId, damage)
sendHit(n, victimId, damage) ==
    IF n.roomId.is # "string" THEN n
    ELSE Emit(n, "playerHit", [roomId |-> n.roomId.id, shooterId |-> n.playerId,
                               victimId |-> victimId, damage |-> damage])

\* sendMove(x, y, angle); the position of the local player is not modelled
sendMove(n) ==
    IF n.roomId.is # "string" THEN n
    ELSE Emit(n, "playerMove", [roomId |-> n.roomId.id])

\* sendPickup(itemId)
sendPickup(n, itemId) ==
    IF n.roomId.is # "string" THEN n
    ELSE Emit(n, "pickupItem", [roomId |-> n.roomId.id, itemId |-> itemId])

\* the local client hears the events evs of the server
Receive(n, evs, strict) ==
    LET c == Delivered([n |-> n, g |-> game], evs, strict)
    IN  net' = c.n /\ game' = c.g /\ UNCHANGED << ray, foe >>

\* the server runs its handler for the oldest message of the local client;
\* socket.join puts the socket in the room before the events of a join
ServerReceives(strict, u1, u2, ty, mv) ==
    LET m == Head(net.outbox)
        n == [net EXCEPT !.outbox = Tail(@)]
        p == m.p
    IN  /\ net.outbox # << >>
        /\ CASE m.ev = "createRoom" ->
                  /\ SecondUuidUnused(p.customId, u1, u2)
                  /\ CreateRoom(Me, p.customId, p.duration, p.username, u1, u2)
                  /\ Receive(IF Refused(p.customId, u1) THEN n
                             ELSE [n EXCEPT !.joined =
                                      @ \cup {NewRoomId(p.customId, u1, u2)}],
                             CreateRoomOut(Me, p.customId, p.duration,
                                           p.username, u1, u2), strict)
             [] m.ev = "joinRoom" ->
                  /\ JoinRoom(Me, p.roomId, p.username)
                  /\ Receive(IF RoomAt(p.roomId) = NoRoom THEN n
                             ELSE [n EXCEPT !.joined = @ \cup {p.roomId}],
                             JoinRoomOut(Me, p.roomId, p.username), strict)
             [] m.ev = "playerMove" ->
                  /\ PlayerMove(Me, p.roomId, mv)
                  /\ Receive(n, PlayerMoveOut(Me, p.roomId, mv), strict)
             [] m.ev = "playerHit" ->
                  /\ WithinItems(MaxItems, p.roomId, p.damage, p.victimId)
                  /\ PlayerHit(p.roomId, p.damage, p.shooterId, p.victimId, ty)
                  /\ Receive(n, PlayerHitOut(p.roomId, p.damage, p.shooterId,
                                             p.victimId, ty), strict)
             [] m.ev = "pickupItem" ->
                  /\ PickupItem(Me, p.roomId, p.itemId)
                  /\ Receive(n, PickupItemOut(Me, p.roomId, p.itemId), strict)

(***************************************************************************)
(* Homepage and Lobby                                                      *)
(***************************************************************************)
LobbyOpen == net.on.onRoomJoined = "lobby"

\* Homepage.onMultiplayer: Lobby mounts, and its effect connects the socket
\* if there is none and registers onRoomJoined
OpenLobby ==
    /\ ~game.mounted /\ ~LobbyOpen
    /\ IF conn[Me] = "new" THEN Connect(Me) ELSE UNCHANGED serverVars
    /\ net' = [net EXCEPT !.playerId = Me, !.on.onRoomJoined = "lobby"]
    /\ UNCHANGED << game, ray, foe >>

\* Lobby.onBack: the cleanup of the effect of Lobby
CloseLobby ==
    /\ LobbyOpen
    /\ net' = [net EXCEPT !.on.onRoomJoined = "null"]
    /\ UNCHANGED << serverVars, game, ray, foe >>

\* handleCreate with a codename typed in; roomIdInput || undefined
handleCreate(customId, duration) ==
    /\ LobbyOpen /\ Len(net.outbox) < MaxOutbox
    /\ net' = Emit(net, "createRoom", [customId |-> customId,
                                      duration |-> duration,
                                      username |-> Codename])
    /\ UNCHANGED << serverVars, game, ray, foe >>

\* handleJoin with a codename typed in: joinRoom(targetId, username)
handleJoin(roomId) ==
    /\ LobbyOpen /\ Len(net.outbox) < MaxOutbox
    /\ net' = Emit([net EXCEPT !.roomId = [is |-> "string", id |-> roomId]],
                   "joinRoom", [roomId |-> roomId, username |-> Codename])
    /\ UNCHANGED << serverVars, game, ray, foe >>

\* Homepage.onStart: App mounts a single-player Game
handleStartGame(strict) ==
    /\ ~game.mounted /\ ~LobbyOpen
    /\ game' = Game(FALSE)
    /\ net' = Mounted(net, FALSE, strict)
    /\ foe' = NoFoe
    /\ UNCHANGED << serverVars, ray >>

\* Game.onExit: App unmounts the Game; the timers of the component act on a
\* state that nobody sees any more
handleExit ==
    /\ game.mounted
    /\ game.isPaused \/ game.gameOverData # << >> \/ game.isGameOver
    /\ game' = NoGame
    /\ net' = Unmounted(net)
    /\ foe' = NoFoe
    /\ UNCHANGED << serverVars, ray >>

(***************************************************************************)
(* Shots, physics and enemies                                              *)
(***************************************************************************)
ENEMY_HEALTH == 100
AGGRO_RANGE == 12
RANGED_RANGE == 9
ENEMY_DAMAGE == 10
\* damageRanged of the easy difficulty
DAMAGE_RANGED == 5

\* the enemies of the single-player game are records [id, health, state,
\* dist, sees]: dist is the distance to the player and sees the line of sight
\* between the two, which the moves of both change from frame to frame

\* a shoot() whose hit test does not skip the enemies that are dead
ShotAtCorpse(s, c, i, v, isHead, ty) ==
    LET g1 == shoot(s.g, c)
        dmg == Dmg(s.g, isHead)
        s1 == [s EXCEPT !.g = g1]
    IN  IF ~fires(s.g, c) \/ s.g.isMultiplayer \/ i \notin 1..Len(s.f) THEN s1
        ELSE IF s.f[i].health - dmg <= 0
        THEN [s1 EXCEPT !.f[i].health = @ - dmg,
                        !.g.score = @ + KILL_POINTS,
                        !.g.itemIdCounter = @ + 1,
                        !.g.items = Append(@, [id |-> g1.itemIdCounter + 1,
                                               pos |-> s.f[i].dist,
                                               type |-> ty])]
        ELSE [s1 EXCEPT !.f[i].health = @ - dmg, !.f[i].state = "CHASE"]

\* shoot() of the render c on the client s = [n, g, f]. The hit test finds
\* the enemy the player aims at: enemy i of the single-player game, or the
\* remote player v, if the enemy lives and is in the line of sight
Shot(s, c, i, v, isHead, ty) ==
    LET g1 == shoot(s.g, c)
        dmg == Dmg(s.g, isHead)
        s1 == [s EXCEPT !.g = g1]
    IN  IF ~fires(s.g, c) THEN s1
        ELSE IF s.g.isMultiplayer
        THEN IF v \in DOMAIN s.n.players /\ v # s.n.playerId
                /\ s.n.players[v].health > 0
             THEN [s1 EXCEPT !.n = sendHit(@, v, dmg)]
             ELSE s1
        ELSE IF i \in 1..Len(s.f) /\ s.f[i].health > 0 /\ s.f[i].sees
        THEN IF s.f[i].health - dmg <= 0
             THEN [s1 EXCEPT !.f[i].health = @ - dmg,
                             !.g.score = @ + KILL_POINTS,
                             !.g.itemIdCounter = @ + 1,
                             !.g.items = Append(@, [id |-> g1.itemIdCounter + 1,
                                                    pos |-> s.f[i].dist,
                                                    type |-> ty])]
             ELSE [s1 EXCEPT !.f[i].health = @ - dmg, !.f[i].state = "CHASE"]
        ELSE s1

\* the item loop of updatePhysics: the in.old oldest items are older than
\* their lifetime, and the player stands on item in.pick of the others
updatePhysics(s, in) ==
    LET kept == SubSeq(s.g.items, Min(in.old, Len(s.g.items)) + 1,
                       Len(s.g.items))
        s1 == [s EXCEPT !.g.items = kept]
    IN  IF in.pick \notin 1..Len(kept) THEN s1
        ELSE IF s.g.isMultiplayer
        THEN [s1 EXCEPT !.n = sendPickup(@, kept[in.pick].id)]
        ELSE [s1 EXCEPT !.g = [picked(s1.g, kept[in.pick].type) EXCEPT !.items =
                 [j \in 1..(Len(kept) - 1) |->
                     IF j < in.pick THEN kept[j] ELSE kept[j + 1]]]]

\* an updateAI that rouses every idle enemy that sees the player
updateAIAnyRange(s, in) ==
    LET alive == SelectSeq(s.f, LAMBDA e : e.health > 0)
        moved == [j \in 1..Len(alive) |->
                     IF j = in.geo.k
                     THEN [alive[j] EXCEPT !.dist = in.geo.dist,
                                           !.sees = in.geo.sees]
                     ELSE alive[j]]
    IN  [s EXCEPT !.f = [j \in 1..Len(alive) |->
                            IF moved[j].state = "IDLE" /\ moved[j].sees
                            THEN [moved[j] EXCEPT !.state = "CHASE"]
                            ELSE moved[j]]]

\* updateAI: the enemies that live; in.geo is the enemy that the moves of
\* this frame have brought to another distance or line of sight, in.att the
\* enemy whose attack is due: with in.lucky its shot from the hip hits, and
\* without it the enemy fires the aimed shot if the player is near and seen
updateAI(s, in) ==
    LET alive == SelectSeq(s.f, LAMBDA e : e.health > 0)
        moved == [j \in 1..Len(alive) |->
                     IF j = in.geo.k
                     THEN [alive[j] EXCEPT !.dist = in.geo.dist,
                                           !.sees = in.geo.sees]
                     ELSE alive[j]]
        roused == [j \in 1..Len(alive) |->
                     IF /\ moved[j].state = "IDLE"
                        /\ moved[j].dist < AGGRO_RANGE /\ moved[j].sees
                     THEN [moved[j] EXCEPT !.state = "CHASE"] ELSE moved[j]]
    IN  [s EXCEPT !.f = roused,
                  !.g.health =
                      IF in.att \in 1..Len(alive) /\ roused[in.att].state = "CHASE"
                      THEN IF in.lucky THEN @ - ENEMY_DAMAGE
                           ELSE IF /\ roused[in.att].dist < RANGED_RANGE
                                   /\ roused[in.att].sees
                           THEN @ - DAMAGE_RANGED ELSE @
                      ELSE @]

\* spawnEnemy: in.spawn.on says that the interval has passed and the spawn
\* point picked is far enough from the player
spawnEnemy(s, in) ==
    IF Len(s.f) >= MAX_ENEMIES \/ ~in.spawn.on THEN s
    ELSE [s EXCEPT !.g.enemyIdCounter = @ + 1,
                   !.f = Append(@, [id |-> s.g.enemyIdCounter + 1,
                                    health |-> ENEMY_HEALTH, state |-> "IDLE",
                                    dist |-> in.spawn.dist,
                                    sees |-> in.spawn.sees])]

\* tick(time), the callback of requestAnimationFrame, of the render that
\* g.tick stands for
tick(s, in) ==
    LET g == s.g
        c == g.tick
        s1 == IF ~c.isPaused /\ g.isMouseDown
                 /\ WEAPONS[g.weaponIndex + 1].isAuto
              THEN Shot(s, c, in.i, in.v, in.isHead, in.ty) ELSE s
        s2 == IF ~c.isPaused THEN updatePhysics(s1, in) ELSE s1
    IN  IF c.isPaused /\ ~g.isMultiplayer THEN s
        ELSE IF s1.g.health > 0
        THEN IF g.isMultiplayer THEN [s2 EXCEPT !.n = sendMove(@)]
             ELSE spawnEnemy(updateAI(s2, in), in)
        ELSE IF ~c.isGameOver
        THEN [s1 EXCEPT !.g = Rendered(s1.g, [s1.g EXCEPT !.isGameOver = TRUE])]
        ELSE s1

(***************************************************************************)
(* The inputs of the Game component                                        *)
(***************************************************************************)
Client == [n |-> net, g |-> game, f |-> foe]

\* the client becomes s; the bounds of the model hold
Becomes(s) ==
    /\ Len(s.g.reloads) <= MaxReloads
    /\ s.g.itemIdCounter <= MaxLoot
    /\ s.g.enemyIdCounter <= MaxSpawns
    /\ Len(s.n.outbox) <= MaxOutbox
    /\ net' = s.n /\ game' = s.g /\ foe' = s.f
    /\ UNCHANGED << serverVars, ray >>

AnimationFrame(in) ==
    /\ game.mounted
    /\ Becomes(tick(Client, in))

\* handleMouseDown with button 0 while the pointer is locked
MouseDown(i, v, isHead, ty) ==
    /\ game.mounted
    /\ game.health > 0 /\ ~game.isPaused
    /\ Becomes(Shot([Client EXCEPT !.g.isMouseDown = TRUE], Seen(game),
                    i, v, isHead, ty))

\* handleMouseUp with button 0
MouseUp ==
    /\ game.mounted /\ game.isMouseDown
    /\ Becomes([Client EXCEPT !.g.isMouseDown = FALSE])

\* handleWheel
Wheel(deltaY) ==
    /\ game.mounted
    /\ ~game.isPaused /\ ~game.isReloading /\ game.health > 0
    /\ Becomes([Client EXCEPT !.g.weaponIndex =
                   IF deltaY > 0 THEN (@ + 1) % Len(WEAPONS)
                   ELSE (@ - 1 + Len(WEAPONS)) % Len(WEAPONS)])

\* handleKeyDown with KeyR: reload() of the render that g.key stands for
KeyR ==
    /\ game.mounted
    /\ Becomes([Client EXCEPT !.g = reload(@, game.key)])

\* handleKeyDown with Escape
KeyEscape ==
    /\ game.mounted
    /\ Becomes([Client EXCEPT !.g =
                   Rendered(game, [game EXCEPT !.isPaused = ~game.isPaused])])

\* the ammo button of the pause menu of the single-player game
ToggleInfiniteAmmo ==
    /\ game.mounted
    /\ game.isPaused /\ ~game.isMultiplayer
    /\ Becomes([Client EXCEPT !.g.isInfiniteAmmo = ~@])

\* the Redeploy button of the game-over overlay: restartGame
restartGame ==
    /\ game.mounted /\ game.isGameOver
    /\ Becomes([Client EXCEPT
           !.f = NoFoe,
           !.g = Rendered(game, [game EXCEPT
                    !.health = START_HEALTH, !.ammo = START_AMMO,
                    !.ammoReserve = START_RESERVE, !.weaponIndex = 0,
                    !.items = << >>, !.score = 0, !.isGameOver = FALSE,
                    !.isPaused = FALSE, !.isReloading = FALSE])])

\* the callback of the oldest timer of reload(), when it is due
ReloadTimeout ==
    /\ game.mounted
    /\ game.reloads # << >> /\ Head(game.reloads) = 0
    /\ Becomes([Client EXCEPT !.g = reloaded(@)])

\* one unit of the client clock passes
Pass ==
    /\ game.mounted
    /\ \A j \in 1..Len(game.reloads) : game.reloads[j] > 0
    /\ game.sinceShot < WEAPONS[2].fireRate \/ game.reloads # << >>
    /\ Becomes([Client EXCEPT !.g.sinceShot = Min(WEAPONS[2].fireRate, @ + 1),
                              !.g.reloads = [j \in 1..Len(@) |-> @[j] - 1]])

(***************************************************************************)
(* The local client with the server                                        *)
(***************************************************************************)
\* the other clients
Others == Sockets \ {Me}

\* no enemy moves, attacks or spawns in this frame
Still == [geo |-> [k |-> 0, dist |-> 0, sees |-> FALSE], att |-> 0,
          lucky |-> FALSE,
          spawn |-> [on |-> FALSE, dist |-> 0, sees |-> FALSE]]

\* what the player aims at: nothing, or an enemy, which in a multiplayer
\* game is a remote player
Aims == {[i |-> 0, v |-> "none"]} \cup {[i |-> 1, v |-> w] : w \in Others}

\* the frames of a game in which no enemy moves or attacks: heads says
\* whether a shot may hit the head, pk are the items the player may stand
\* on, and spawns says whether an enemy may spawn, in sight of the player
Frames(heads, pk, spawns) ==
    { [i |-> a.i, v |-> a.v, isHead |-> h, ty |-> ITEM_AMMO, old |-> 0,
       pick |-> k, geo |-> Still.geo, att |-> 0, lucky |-> FALSE,
       spawn |-> [on |-> sp, dist |-> 8, sees |-> sp]] :
        a \in Aims, h \in heads, k \in pk, sp \in spawns }

\* the handlers of the server run for the other clients, and the local
\* client hears their events: the other clients enter rooms
RemoteLobby ==
    \/ \E s \in Others, c \in RequestedIds \ {<< >>}, d \in ShortDurations,
          u1 \in Uuids, u2 \in Uuids :
          /\ SecondUuidUnused(c, u1, u2)
          /\ CreateRoom(s, c, d, UsernameOf[s], u1, u2)
          /\ Receive(net, CreateRoomOut(s, c, d, UsernameOf[s], u1, u2), FALSE)
    \/ \E s \in Others, r \in GameRooms :
          JoinRoom(s, r, UsernameOf[s])
              /\ Receive(net, JoinRoomOut(s, r, UsernameOf[s]), FALSE)

\* the other clients connect and claim hits, and the timers of the server
\* run
Remote(damages, victims) ==
    \/ \E s \in Others : Connect(s) /\ Receive(net, ConnectOut(s), FALSE)
    \/ \E s \in Others, r \in GameRooms, d \in damages, v \in victims,
          ty \in ItemTypes :
          /\ conn[s] = "open"
          /\ WithinItems(MaxItems, r, d, v)
          /\ PlayerHit(r, d, s, v, ty)
          /\ Receive(net, PlayerHitOut(r, d, s, v, ty), FALSE)
    \/ \E t \in intervals :
          CountdownFire(t) /\ Receive(net, CountdownOut(t), FALSE)
    \/ \E k \in {1} : Respawn(k) /\ Receive(net, RespawnOut(k), FALSE)
    \/ Tick /\ UNCHANGED clientVars

\* the player of the local client goes through the lobby into a room
Lobbying(stricts) ==
    \/ OpenLobby
    \/ \E c \in RequestedIds \ {<< >>}, d \in ShortDurations : handleCreate(c, d)
    \/ \E r \in GameRooms : handleJoin(r)
    \/ \E strict \in stricts, u1 \in Uuids, u2 \in Uuids, ty \in ItemTypes,
          mv \in Moves : ServerReceives(strict, u1, u2, ty, mv)

\* the frames of a game, in which the player presses the mouse button
Playing(frames) ==
    \/ \E in \in frames : AnimationFrame(in)
    \/ \E in \in frames : MouseDown(in.i, in.v, in.isHead, in.ty)
    \/ ReloadTimeout
    \/ Pass

\* the player releases the button, asks for a reload or changes the weapon
Reloading ==
    \/ MouseUp
    \/ KeyR
    \/ \E deltaY \in {1} : Wheel(deltaY)

\* the pause menu of a single-player game
Menu ==
    \/ game.mounted /\ ~game.isMultiplayer /\ KeyEscape
    \/ ToggleInfiniteAmmo

\* a multiplayer game: the local client joins a room and plays with the
\* rifle, without reloading
NextNet ==
    \/ Lobbying(BOOLEAN)
    \/ Playing(Frames({FALSE}, {0}, {FALSE}))
    \/ CloseLobby
    \/ handleExit
    \/ RemoteLobby
    \/ Remote({50}, Others)

SpecNet == Init /\ [][NextNet]_vars

\* the gun: a single-player game, or a multiplayer game in which another
\* client has the local player killed; every hit is deadly
NextGun ==
    \/ \E strict \in {FALSE} : handleStartGame(strict)
    \/ Lobbying({FALSE})
    \/ Playing(Frames({TRUE}, {0, 1}, BOOLEAN))
    \/ Reloading
    \/ Menu
    \/ restartGame
    \/ Remote({100}, {Me})

SpecGun == Init /\ [][NextGun]_vars

\* distances of an enemy to the player, inside and outside the aggro range
Distances == {8, 15}

\* the frames of a single-player game with enemies: one of them comes to
\* another place, or attacks, or a new one spawns
Hunts ==
    { [Still EXCEPT !.geo = [k |-> k, dist |-> d, sees |-> b]] :
        k \in 1..MAX_ENEMIES, d \in Distances, b \in BOOLEAN }
    \cup { [Still EXCEPT !.att = k, !.lucky = b] :
              k \in 1..MAX_ENEMIES, b \in BOOLEAN }
    \cup { [Still EXCEPT !.spawn = [on |-> TRUE, dist |-> d, sees |-> b]] :
              d \in Distances, b \in BOOLEAN }

\* a frame of the hunt, with what the player aims at
Hunt(in, i, isHead) ==
    [ i |-> i, v |-> "none", isHead |-> isHead, ty |-> ITEM_AMMO, old |-> 0,
      pick |-> 0, geo |-> in.geo, att |-> in.att, lucky |-> in.lucky,
      spawn |-> in.spawn ]

\* the enemies: a single-player game in which the player shoots at them
NextAI ==
    \/ \E strict \in {FALSE} : handleStartGame(strict)
    \/ \E in \in Hunts, i \in 0..MAX_ENEMIES :
          AnimationFrame(Hunt(in, i, FALSE))
    \/ \E i \in 1..MAX_ENEMIES, isHead \in BOOLEAN :
          MouseDown(i, "none", isHead, ITEM_AMMO)
    \/ MouseUp
    \/ Pass

SpecAI == Init /\ [][NextAI]_vars

(***************************************************************************)
(* The grid: wall casting, sprite casting, the shot and the line of sight  *)
(***************************************************************************)
\* Positions are counted in halves of a cell, and so are the distances of
\* the walks; a direction is a vector of whole numbers.

\* new Raycaster(width, height): the columns and rows of the screen
Width == 4
Height == 4

\* 1 / 0 in the arithmetic of the code
Infinity == 1000

\* steps that a walk is followed outside the grid
MaxOutside == 2

\* const steps = 25 of hasLineOfSight
LOS_STEPS == 25

\* a map of five by five cells: walls all around and a pillar in the middle
Walled ==
    [x \in 0..4 |-> [y \in 0..4 |->
        IF x \in {0, 4} \/ y \in {0, 4} THEN 1
        ELSE IF x = 2 /\ y = 2 THEN 2 ELSE 0]]

\* the same map with a gap in its border
Breached == [Walled EXCEPT ![4][1] = 0]

Maps == {Walled, Breached}

\* cell (x, y) is a cell of the map
InGrid(map, x, y) == x \in DOMAIN map /\ y \in DOMAIN map[x]

\* every cell on the edge of the map is solid
SolidBorder(map) ==
    \A x \in DOMAIN map : \A y \in DOMAIN map[x] :
        x \in {0, 4} \/ y \in {0, 4} => map[x][y] > 0

\* a hit test that only knows the pillar
WallAtPillar(map, x, y) == InGrid(map, x, y) /\ map[x][y] > 1

\* castWalls: map[mapX] && map[mapX][mapY] > 0
WallAt(map, x, y) == InGrid(map, x, y) /\ map[x][y] > 0

\* shoot: map[mapX] && map[mapX][mapY] === 0, the shot flies on
ShotFlies(map, x, y) == InGrid(map, x, y) /\ map[x][y] = 0

\* hasLineOfSight: map[Math.floor(cx)]?.[Math.floor(cy)] > 0
Blocks(map, x, y) == InGrid(map, x, y) /\ map[x][y] > 0

\* updatePhysics and updateAI: map[...]?.[...] === 0, the move is made
Walkable(map, x, y) == InGrid(map, x, y) /\ map[x][y] = 0

\* Math.floor of a position
Floor(p) == p \div 2

Abs(a) == IF a < 0 THEN -a ELSE a

Max(a, b) == IF a > b THEN a ELSE b

\* a + b of two distances
Plus(a, b) == IF a = Infinity \/ b = Infinity THEN Infinity ELSE a + b

\* Math.abs(1 / r) for the component r of a direction counted in halves
DeltaDist(r) == IF r = 0 THEN Infinity ELSE 4 \div Abs(r)

\* the start of a walk from pos along the direction r: the cell, the steps
\* and the distances to the first grid lines
Dda(pos, r) ==
    LET mapX == Floor(pos.x)
        mapY == Floor(pos.y)
        deltaDistX == DeltaDist(r.x)
        deltaDistY == DeltaDist(r.y)
        side(p, m, rc, delta) ==
            IF rc < 0 THEN ((p - 2 * m) * delta) \div 2
            ELSE IF delta = Infinity THEN Infinity
            ELSE ((2 * m + 2 - p) * delta) \div 2
    IN  [ mapX |-> mapX, mapY |-> mapY,
          deltaDistX |-> deltaDistX, deltaDistY |-> deltaDistY,
          stepX |-> IF r.x < 0 THEN -1 ELSE 1,
          stepY |-> IF r.y < 0 THEN -1 ELSE 1,
          sideDistX |-> side(pos.x, mapX, r.x, deltaDistX),
          sideDistY |-> side(pos.y, mapY, r.y, deltaDistY),
          side |-> 0, outside |-> 0 ]

\* one step of a walk: to the next cell in x or in y
Advance(map, d) ==
    LET d1 == IF d.sideDistX < d.sideDistY
              THEN [d EXCEPT !.sideDistX = Plus(@, d.deltaDistX),
                             !.mapX = @ + d.stepX, !.side = 0]
              ELSE [d EXCEPT !.sideDistY = Plus(@, d.deltaDistY),
                             !.mapY = @ + d.stepY, !.side = 1]
    IN  [d1 EXCEPT !.outside =
            IF InGrid(map, d1.mapX, d1.mapY) THEN @ ELSE @ + 1]

\* perpWallDist of castWalls, wallDist of shoot
Dist(d) ==
    IF d.side = 0 THEN d.sideDistX - d.deltaDistX
    ELSE d.sideDistY - d.deltaDistY

\* the camera plane of updatePhysics, with a field of view of 1
Plane(dir) == [x |-> dir.y, y |-> -dir.x]

\* the direction of the ray of column x, in halves:
\* dir + plane * (2 * x / w - 1)
RayDir(dir, x) ==
    LET cameraX == (4 * x) \div Width - 2
    IN  [ x |-> 2 * dir.x + Plane(dir).x * cameraX,
          y |-> 2 * dir.y + Plane(dir).y * cameraX ]

\* the directions the player looks in
Dirs == { [x |-> 1, y |-> 0], [x |-> 0, y |-> 1],
          [x |-> -1, y |-> 0], [x |-> 0, y |-> -1] }

\* where the player starts, and where sprites and targets are
Spawn == [x |-> 3, y |-> 3]

Places == { [x |-> a, y |-> b] : a \in {3, 5, 7, 9}, b \in {3, 5, 7} }

\* hasLineOfSight(p1, p2, map): no sample on the way from p1 to p2 is in a
\* cell that blocks
hasLineOfSight(p1, p2, map) ==
    \A i \in 1..LOS_STEPS :
        ~Blocks(map, (LOS_STEPS * p1.x + i * (p2.x - p1.x)) \div (2 * LOS_STEPS),
                     (LOS_STEPS * p1.y + i * (p2.y - p1.y)) \div (2 * LOS_STEPS))

\* the columns in which castSprites draws the sprite at sp, with pitch and
\* jump height 0, a zoom of 1 and a texture that is loaded
Stripes(pos, dir, sp, zBuffer) ==
    LET spriteX == sp.x - pos.x
        spriteY == sp.y - pos.y
        plane == Plane(dir)
        invDet == 1 \div (plane.x * dir.y - dir.x * plane.y)
        transformX == invDet * (dir.y * spriteX - dir.x * spriteY)
        transformY == invDet * (-plane.y * spriteX + plane.x * spriteY)
        spriteScreenX == (Width * (transformY + transformX)) \div (2 * transformY)
        spriteWidth == (2 * Height) \div transformY
        drawStartX == Max(0, spriteScreenX + ((-spriteWidth) \div 2))
        drawEndX == Min(Width - 1, spriteScreenX + (spriteWidth \div 2))
        clippedYStart == Max(0, Height - spriteWidth)
        clippedYEnd == Min(2 * (Height - 1), Height + spriteWidth)
    IN  IF transformY <= 0 THEN {}
        ELSE { stripe \in drawStartX..(drawEndX - 1) :
                 /\ stripe > 0 /\ stripe < Width
                 /\ transformY < zBuffer[stripe]
                 /\ clippedYEnd > clippedYStart }

\* the projection of the sprite at sp: its depth, and twice the left and the
\* right end of its extent on the screen
Projected(pos, dir, sp) ==
    LET transformX == dir.y * (sp.x - pos.x) - dir.x * (sp.y - pos.y)
        transformY == dir.x * (sp.x - pos.x) + dir.y * (sp.y - pos.y)
        spriteScreenX == (Width * (transformY + transformX)) \div (2 * transformY)
        spriteWidth == (2 * Height) \div transformY
    IN  [ depth |-> transformY,
          from |-> 2 * spriteScreenX - spriteWidth,
          to |-> 2 * spriteScreenX + spriteWidth ]

\* Game mounts with its map; the player stands at the spawn point
LoadMap(map) ==
    /\ ray = NoRay
    /\ ray' = [at |-> "ready", map |-> map, pos |-> Spawn,
               dir |-> [x |-> 1, y |-> 0]]
    /\ UNCHANGED << serverVars, net, game, foe >>

\* the walk of the renderer or of the shot is over
Ready == ray.at \in {"ready", "done", "decal"}

\* what stays of the frame before
Player == [at |-> "ready", map |-> ray.map, pos |-> ray.pos, dir |-> ray.dir]

\* handleMouseMove: the player turns
Turn(dir) ==
    /\ Ready /\ dir # ray.dir
    /\ ray' = [Player EXCEPT !.dir = dir]
    /\ UNCHANGED << serverVars, net, game, foe >>

\* the movement of updatePhysics: by dx and then by dy, each if the cell
\* the player comes to is empty
Move(dx, dy) ==
    LET x == IF Walkable(ray.map, Floor(ray.pos.x + dx), Floor(ray.pos.y))
             THEN ray.pos.x + dx ELSE ray.pos.x
        y == IF Walkable(ray.map, Floor(x), Floor(ray.pos.y + dy))
             THEN ray.pos.y + dy ELSE ray.pos.y
    IN  /\ Ready
        /\ ray' = [Player EXCEPT !.pos = [x |-> x, y |-> y]]
        /\ UNCHANGED << serverVars, net, game, foe >>

\* render: castWalls begins with column 0; every entry of the zBuffer is
\* written before castSprites reads it
render ==
    /\ Ready
    /\ ray' = [ at |-> "walls", map |-> ray.map, pos |-> ray.pos,
                dir |-> ray.dir, x |-> 0,
                d |-> Dda(ray.pos, RayDir(ray.dir, 0)),
                zBuffer |-> [c \in 0..(Width - 1) |-> 0] ]
    /\ UNCHANGED << serverVars, net, game, foe >>

\* one turn of the loop `while (hit === 0)` of castWalls; after a hit the
\* distance is written to the zBuffer and the next column begins
castWalls ==
    LET d == Advance(ray.map, ray.d)
        zBuffer == [ray.zBuffer EXCEPT ![ray.x] = Dist(d)]
    IN  /\ ray.at = "walls"
        /\ d.outside <= MaxOutside
        /\ ray' = IF ~WallAt(ray.map, d.mapX, d.mapY)
                  THEN [ray EXCEPT !.d = d]
                  ELSE IF ray.x + 1 < Width
                  THEN [ray EXCEPT !.zBuffer = zBuffer, !.x = @ + 1,
                                   !.d = Dda(ray.pos, RayDir(ray.dir, ray.x + 1))]
                  ELSE [ at |-> "sprites", map |-> ray.map, pos |-> ray.pos,
                         dir |-> ray.dir, zBuffer |-> zBuffer ]
        /\ UNCHANGED << serverVars, net, game, foe >>

\* castSprites with one sprite at sp
castSprites(sp) ==
    /\ ray.at = "sprites"
    /\ Walkable(ray.map, Floor(sp.x), Floor(sp.y))
    /\ ray' = [ at |-> "done", map |-> ray.map, pos |-> ray.pos,
                dir |-> ray.dir, zBuffer |-> ray.zBuffer, sprite |-> sp,
                drawn |-> Stripes(ray.pos, ray.dir, sp, ray.zBuffer) ]
    /\ UNCHANGED << serverVars, net, game, foe >>

\* shoot: the walk to the wall that gets the decal begins
shootRay ==
    /\ Ready
    /\ ray' = [ at |-> "shot", map |-> ray.map, pos |-> ray.pos,
                dir |-> ray.dir,
                d |-> Dda(ray.pos, [x |-> 2 * ray.dir.x, y |-> 2 * ray.dir.y]) ]
    /\ UNCHANGED << serverVars, net, game, foe >>

\* one turn of the loop of shoot, or its end: the enemy at e is hit if it is
\* ahead, nearer than the wall, on the line of the shot and in sight
shootWalk(e) ==
    LET d == ray.d
        dx == e.x - ray.pos.x
        dy == e.y - ray.pos.y
    IN  /\ ray.at = "shot"
        /\ ray' = IF ShotFlies(ray.map, d.mapX, d.mapY)
                  THEN [ray EXCEPT !.d = Advance(ray.map, d)]
                  ELSE [ at |-> "decal", map |-> ray.map, pos |-> ray.pos,
                         dir |-> ray.dir, mapX |-> d.mapX, mapY |-> d.mapY,
                         enemy |-> e,
                         hit |-> /\ dx * ray.dir.x + dy * ray.dir.y > 0
                                 /\ dx * dx + dy * dy < Dist(d) * Dist(d)
                                 /\ Abs(dx * ray.dir.y - dy * ray.dir.x) < 1
                                 /\ hasLineOfSight(ray.pos, e, ray.map) ]
        /\ UNCHANGED << serverVars, net, game, foe >>

\* the grid: the player walks and turns, the frames are rendered, and the
\* player shoots
NextRay ==
    \/ \E map \in Maps : LoadMap(map)
    \/ \E dir \in Dirs : Turn(dir)
    \/ \E dx \in {-1, 0, 1}, dy \in {-1, 0, 1} : Move(dx, dy)
    \/ render
    \/ castWalls
    \/ \E sp \in Places : castSprites(sp)
    \/ shootRay
    \/ \E e \in Places : shootWalk(e)

SpecRay == Init /\ [][NextRay]_vars

\* the loop of castWalls goes on as long as it can
SpecRayFair == SpecRay /\ WF_vars(castWalls)

(***************************************************************************)
(* Properties of the game events                                           *)
(***************************************************************************)
\* the events of evs named ev
Named(evs, ev) == SelectSeq(evs, LAMBDA e : e.ev = ev)

\* how many events of evs are named ev and carry payload p
Count(evs, ev, p) == Len(SelectSeq(evs, LAMBDA e : e.ev = ev /\ e.p = p))

\* the player victimId of the room roomId, which exists
PlayerOf(roomId, victimId) == heap[RoomAt(roomId)].players[victimId]

\* a step lowers the stored health of player v of room object o
Hurts(o, v) ==
    /\ v \in DOMAIN heap'[o].players
    /\ heap'[o].players[v].health < heap[o].players[v].health

\* C1: a playerHit on a PLAYING room that brings the stored health of a
\* living victim to 0 or less emits exactly one healthUpdate
\* {id, health: 0, isDead: true} and exactly one playerDied, sent to the room
\* with the victim, the killer and the scores of the room, and leaves the
\* victim with isDead = true.
C1_LethalHit ==
    /\ [](\A r \in GameRooms, d \in Damages, sh \in PlayerIds, v \in PlayerIds,
             ty \in ItemTypes :
               ( /\ HitApplies(r, v)
                 /\ ~PlayerOf(r, v).isDead
                 /\ PlayerOf(r, v).health - d <= 0 )
               => /\ Count(PlayerHitOut(r, d, sh, v, ty), "healthUpdate",
                           [id |-> v, health |-> 0, isDead |-> TRUE]) = 1
                  /\ Len(Named(PlayerHitOut(r, d, sh, v, ty), "playerDied")) = 1
                  /\ LET died == Named(PlayerHitOut(r, d, sh, v, ty),
                                       "playerDied")[1]
                     IN  /\ died.to = ToRoom(r)
                         /\ died.p.victimId = v
                         /\ died.p.killerId = sh)
    /\ [][\A o \in 1..Len(heap) : \A v \in DOMAIN heap[o].players :
            ( /\ heap[o].status = "PLAYING"
              /\ ~heap[o].players[v].isDead
              /\ Hurts(o, v)
              /\ heap'[o].players[v].health <= 0 )
            => /\ heap'[o].players[v].isDead
               /\ \A d \in Damages, sh \in PlayerIds, ty \in ItemTypes :
                      PlayerHit(heap[o].id, d, sh, v, ty)
                          => Named(PlayerHitOut(heap[o].id, d, sh, v, ty),
                                   "playerDied")[1].p.scores = heap'[o].scores
         ]_vars

\* a victim has just died: its respawn was scheduled in the last step
C1_Witness ==
    \E o \in 1..Len(heap) : \E v \in DOMAIN heap[o].players :
        /\ heap[o].players[v].isDead
        /\ heap[o].players[v].health = 0
        /\ \E i \in 1..Len(respawns) :
               respawns[i].victimId = v /\ respawns[i].age = 0

\* C2: a playerHit on a victim that is already dead adds nothing to a score,
\* spawns no item and emits no playerDied.
C2_HitOnDead ==
    [][\A o \in 1..Len(heap) : \A v \in DOMAIN heap[o].players :
            (heap[o].players[v].isDead /\ Hurts(o, v))
            => /\ heap'[o].scores = heap[o].scores
               /\ nItems' = nItems
               /\ heap'[o].items = heap[o].items
               /\ \A d \in Damages, sh \in PlayerIds, ty \in ItemTypes :
                      PlayerHit(heap[o].id, d, sh, v, ty)
                          => Named(PlayerHitOut(heap[o].id, d, sh, v, ty),
                                   "playerDied") = << >>
      ]_vars

(***************************************************************************)
(* Properties of the one-shot timers                                       *)
(***************************************************************************)
\* the five safe spawn points, in tenths
FiveSpawns ==
    { <<25, 25>>, <<215, 25>>, <<25, 215>>, <<215, 215>>, <<120, 120>> }

ItemIn(i) == \E o \in 1..Len(heap) : i \in DOMAIN heap[o].items

\* C4: an item that is not picked up is deleted from the item map of its
\* room 5 steps of 1000 ms after its spawn, and over any interleaving of
\* pickup and expiry each item has exactly one itemRemoved, never two: none
\* while it is in the map, one from the moment it has left it.
C4_ItemRemovedOnce ==
    /\ [](\A i \in 1..nItems :
             /\ removed[i] <= 1
             /\ ItemIn(i) => /\ removed[i] = 0
                             /\ \E t \in expiries :
                                    /\ t.itemId = i
                                    /\ t.age <= 5
                                    /\ i \in DOMAIN heap[t.obj].items
             /\ ~ItemIn(i) => removed[i] = 1)
    /\ [][\A t \in expiries :
             t \notin expiries'
                 => \/ \E u \in expiries' : u.itemId = t.itemId /\ u.age = t.age + 1
                    \/ /\ t.age = 5
                       /\ t.itemId \notin DOMAIN heap'[t.obj].items
                       /\ removed'[t.itemId] = 1
                       /\ ItemExpireOut(t) =
                              IF collected[t.itemId] = 0
                              THEN << Ev("itemRemoved", ToRoom(t.roomId), t.itemId) >>
                              ELSE << >>
       ]_vars

\* an item that nobody picked up has expired
C4_Witness ==
    \E i \in 1..nItems :
        /\ removed[i] = 1
        /\ collected[i] = 0
        /\ ~ItemIn(i)
        /\ \A t \in expiries : t.itemId # i

\* C5: each item has at most one itemCollected, sent to the socket whose
\* pickupItem is the first to arrive while the item is in the map; a
\* pickupItem that arrives after the item was removed changes no state and
\* emits no event.
C5_FirstClaimWins ==
    /\ [](\A i \in 1..nItems :
             /\ collected[i] <= 1
             /\ \A s \in Sockets, r \in GameRooms :
                    IF PickupApplies(r, i)
                    THEN /\ collected[i] = 0
                         /\ Named(PickupItemOut(s, r, i), "itemCollected")
                                = << Ev("itemCollected", ToSocket(s),
                                        [type |-> heap[RoomAt(r)].items[i].type]) >>
                    ELSE PickupItemOut(s, r, i) = << >>)
    /\ [][\A i \in 1..nItems :
             /\ collected'[i] # collected[i]
                    => /\ ItemIn(i)
                       /\ ~ItemIn(i)'
                       /\ collected'[i] = 1
             /\ removed[i] >= 1
                    => \A s \in Sockets, r \in GameRooms : ~PickupItem(s, r, i)
       ]_vars

\* an item was picked up, and its timeout has run since
C5_Witness ==
    \E i \in 1..nItems :
        /\ collected[i] = 1
        /\ removed[i] = 1
        /\ \A t \in expiries : t.itemId # i

(***************************************************************************)
(* Properties of the countdown and of the life of a room                   *)
(***************************************************************************)
\* room object o is the room the table holds under its id
InTable(o) == rooms[heap[o].id] = o

\* the interval timers set for room object o
TimersOf(o) == {t \in intervals : t.obj = o}

\* C6: a room created with a duration of d whole minutes, d >= 1, starts
\* with timeLeft = 60 d; while it is in the table its countdown runs once per
\* step of 1000 ms and emits one timeUpdate with the value one below the
\* last; when the value is 0 the room becomes FINISHED and gameOver is
\* emitted, once; a FINISHED room has no countdown left, so no timeUpdate or
\* gameOver follows, and timeLeft is never below 0.
C6_Countdown ==
    /\ [](\A o \in 1..Len(heap) :
             /\ heap[o].timeLeft >= 0
             /\ gameOvers[o] <= 1
             /\ \A t \in TimersOf(o) : t.age <= 1
             /\ (InTable(o) /\ heap[o].status = "PLAYING")
                    => /\ TimersOf(o) # {}
                       /\ heap[o].timeLeft > 0
                       /\ gameOvers[o] = 0
             /\ heap[o].status = "FINISHED"
                    => /\ TimersOf(o) = {}
                       /\ heap[o].timeLeft = 0
                       /\ gameOvers[o] = 1)
    /\ [][ /\ Len(heap') > Len(heap)
                => \A s \in Sockets, c \in RequestedIds \ {<< >>},
                      d \in MatchDurations, u1 \in Uuids, u2 \in Uuids :
                        CreateRoom(s, c, d, UsernameOf[s], u1, u2)
                            => /\ d[1] >= 1 /\ d[2] = 1
                               /\ heap'[Len(heap')].timeLeft = 60 * d[1]
           /\ \A t \in intervals :
                (t.left = 0 /\ RoomAt(t.roomId) # NoRoom /\ CountdownFire(t))
                => /\ t.age = 1
                   /\ heap'[t.obj].timeLeft = heap[t.obj].timeLeft - 1
                   /\ Named(CountdownOut(t), "timeUpdate")
                          = << Ev("timeUpdate", ToRoom(heap[t.obj].id),
                                  heap[t.obj].timeLeft - 1) >>
                   /\ IF heap[t.obj].timeLeft - 1 = 0
                      THEN /\ heap'[t.obj].status = "FINISHED"
                           /\ Len(Named(CountdownOut(t), "gameOver")) = 1
                           /\ gameOvers'[t.obj] = 1
                      ELSE /\ heap'[t.obj].status = "PLAYING"
                           /\ Named(CountdownOut(t), "gameOver") = << >>
                           /\ gameOvers'[t.obj] = 0
       ]_vars

\* a match has been played to its end after a match of two minutes was left
\* in its first minute
C6_Witness ==
    \E o \in 1..Len(heap), p \in 1..Len(heap) :
        /\ InTable(o)
        /\ heap[o].status = "FINISHED"
        /\ heap[o].timeLeft = 0
        /\ gameOvers[o] = 1
        /\ ~InTable(p)
        /\ heap[p].timeLeft = 61

\* C7: the winnerId of gameOver is a key of the score map of the room whose
\* score is at least every score of the map, and among the keys with that
\* score it is the one that entered the map first.
C7_Winner ==
    \A t \in intervals :
        (t.left = 0 /\ RoomAt(t.roomId) # NoRoom /\ heap[t.obj].timeLeft - 1 <= 0)
        => /\ Len(Named(CountdownOut(t), "gameOver")) = 1
           /\ LET over == Named(CountdownOut(t), "gameOver")[1].p
                  scores == heap[t.obj].scores
              IN  /\ over.scores = scores
                  /\ \E j \in 1..Len(scores) :
                         /\ scores[j].id = over.winnerId
                         /\ \A k \in 1..Len(scores) :
                                scores[k].score <= scores[j].score
                         /\ \A k \in 1..(j - 1) :
                                scores[k].score < scores[j].score

\* the countdown of a room is about to end the match with two players on
\* the same score
C7_Witness ==
    \E t \in intervals :
        /\ t.left = 0
        /\ RoomAt(t.roomId) # NoRoom
        /\ heap[t.obj].timeLeft = 1
        /\ Len(heap[t.obj].scores) = 2
        /\ heap[t.obj].scores[1].score = heap[t.obj].scores[2].score

\* C8: a disconnect that leaves the player set of a room empty takes the
\* room out of the table in the same step, whatever its status, and cancels
\* its countdown; a room that is out of the table has no countdown, its
\* timeLeft does not move and no gameOver is emitted for it.
C8_EmptyRoomDeleted ==
    /\ [](\A o \in 1..Len(heap) :
             /\ InTable(o) <=> DOMAIN heap[o].players # {}
             /\ ~InTable(o) => TimersOf(o) = {})
    /\ [][\A o \in 1..Len(heap) :
             /\ (DOMAIN heap[o].players # {} /\ DOMAIN heap'[o].players = {})
                    => /\ \E s \in Sockets :
                              conn[s] = "open" /\ conn'[s] = "closed"
                       /\ rooms'[heap[o].id] = NoRoom
                       /\ \A t \in intervals' : t.obj # o
             /\ ~InTable(o)
                    => /\ heap'[o].timeLeft = heap[o].timeLeft
                       /\ heap'[o].status = heap[o].status
                       /\ gameOvers'[o] = gameOvers[o]
       ]_vars

\* a room was deleted while PLAYING and another after it had FINISHED
C8_Witness ==
    \E o \in 1..Len(heap), p \in 1..Len(heap) :
        /\ ~InTable(o) /\ heap[o].status = "PLAYING"
        /\ ~InTable(p) /\ heap[p].status = "FINISHED"

\* C9: no room has more than one countdown timer, every PLAYING room of the
\* table has exactly one, and a timer is started only in the step that
\* creates a room: a join of a room that exists starts none.
C9_OneCountdown ==
    /\ [](\A o \in 1..Len(heap) :
             /\ Cardinality(TimersOf(o)) <= 1
             /\ (InTable(o) /\ heap[o].status = "PLAYING")
                    => Cardinality(TimersOf(o)) = 1)
    /\ [][ /\ nIntervals' # nIntervals => Len(heap') = Len(heap) + 1
           /\ \A o \in 1..Len(heap) :
                DOMAIN heap'[o].players # DOMAIN heap[o].players
                    => TimersOf(o)' \subseteq TimersOf(o)
       ]_vars

\* a second player has joined a PLAYING room
C9_Witness ==
    \E o \in 1..Len(heap) :
        /\ InTable(o)
        /\ heap[o].status = "PLAYING"
        /\ Cardinality(DOMAIN heap[o].players) = 2
        /\ Cardinality(TimersOf(o)) = 1

\* C10: the status of a room changes only from WAITING to PLAYING and from
\* PLAYING to FINISHED; a FINISHED room stays FINISHED whatever joins, hits,
\* pickups, respawns and disconnects follow; a room becomes FINISHED only
\* in a step that takes its timeLeft to 0.  A room is WAITING only inside
\* the handler that creates it and is PLAYING when that handler returns.
C10_StatusOrder ==
    /\ [](\A o \in 1..Len(heap) :
             /\ heap[o].status \in {"WAITING", "PLAYING", "FINISHED"}
             /\ heap[o].status = "FINISHED" => heap[o].timeLeft <= 0)
    /\ [][ /\ \A o \in 1..Len(heap) :
                heap'[o].status # heap[o].status
                    => \/ /\ heap[o].status = "WAITING"
                          /\ heap'[o].status = "PLAYING"
                       \/ /\ heap[o].status = "PLAYING"
                          /\ heap'[o].status = "FINISHED"
                          /\ heap[o].timeLeft > 0
                          /\ heap'[o].timeLeft <= 0
           /\ Len(heap') > Len(heap)
                => heap'[Len(heap')].status \in {"WAITING", "PLAYING"}
       ]_vars

\* a FINISHED room with two players in which a player died, respawned and
\* left an item that is gone
C10_Witness ==
    \E o \in 1..Len(heap) :
        /\ InTable(o)
        /\ heap[o].status = "FINISHED"
        /\ Cardinality(DOMAIN heap[o].players) = 2
        /\ respawns = << >>
        /\ nItems = 1
        /\ removed[1] = 1

(***************************************************************************)
(* Properties of the lobby                                                 *)
(***************************************************************************)
\* C11: the join that finds a room WAITING makes it PLAYING and starts its
\* countdown in the same handler, so a room with a player is never WAITING;
\* createRoom leaves a PLAYING room of the table that holds the creator
\* alone, with score 0, timeLeft = 60 * duration and a countdown.
C11_NeverWaiting ==
    /\ [](\A o \in 1..Len(heap) :
             DOMAIN heap[o].players # {} => heap[o].status # "WAITING")
    /\ [][Len(heap') > Len(heap)
             => \A s \in Sockets, c \in RequestedIds, d \in ShortDurations,
                   u1 \in Uuids, u2 \in Uuids :
                     CreateRoom(s, c, d, UsernameOf[s], u1, u2)
                         => LET o == Len(heap')
                            IN  /\ o = Len(heap) + 1
                                /\ rooms'[heap'[o].id] = o
                                /\ heap'[o].status = "PLAYING"
                                /\ DOMAIN heap'[o].players = {s}
                                /\ heap'[o].scores = << [id |-> s, score |-> 0] >>
                                /\ heap'[o].timeLeft * d[2] = 60 * d[1]
                                /\ Cardinality({t \in intervals' : t.obj = o}) = 1
                                /\ \A t \in intervals : t.obj # o
       ]_vars

\* a room with a generated id has just been created: its countdown has not
\* run yet
C11_Witness ==
    \E o \in 1..Len(heap) :
        /\ InTable(o)
        /\ Len(heap[o].id) = 6
        /\ heap[o].status = "PLAYING"
        /\ Cardinality(DOMAIN heap[o].players) = 1
        /\ \E t \in TimersOf(o) : t.age = 0 /\ t.left = 1
        /\ heap[o].timeLeft = 3

(***************************************************************************)
(* More properties of playerHit                                            *)
(***************************************************************************)
\* C12: a playerHit addressed to a room of the table that is not PLAYING
\* emits no event and changes nothing: no health, isDead flag, score or
\* item, and no timer.
C12_HitOutsidePlay ==
    /\ [](\A r \in GameRooms, d \in Damages, sh \in PlayerIds, v \in PlayerIds,
             ty \in ItemTypes :
               (RoomAt(r) # NoRoom /\ heap[RoomAt(r)].status # "PLAYING")
                   => PlayerHitOut(r, d, sh, v, ty) = << >>)
    /\ [][\A r \in GameRooms :
             (RoomAt(r) # NoRoom /\ heap[RoomAt(r)].status # "PLAYING")
                 => /\ \A d \in Damages, sh \in PlayerIds, v \in PlayerIds,
                          ty \in ItemTypes : ~PlayerHit(r, d, sh, v, ty)
                    /\ \A v \in DOMAIN heap[RoomAt(r)].players : ~Hurts(RoomAt(r), v)
                    /\ Len(respawns') <= Len(respawns)
                    /\ expiries' \subseteq expiries \/ expiries' = {Elapse(t) : t \in expiries}
                    /\ nItems' = nItems
       ]_vars

\* a FINISHED room of the table holds a living player who was never hit
C12_Witness ==
    \E o \in 1..Len(heap) : \E v \in DOMAIN heap[o].players :
        /\ InTable(o)
        /\ heap[o].status = "FINISHED"
        /\ conn[v] = "open"
        /\ heap[o].players[v].health = 100
        /\ nItems = 0

\* the scores of room object o after a step are those before it with n
\* added to the score of id, if id is a key of the map
ScoresPlus(o, id, n) ==
    /\ Len(heap'[o].scores) = Len(heap[o].scores)
    /\ \A j \in 1..Len(heap[o].scores) :
           /\ heap'[o].scores[j].id = heap[o].scores[j].id
           /\ heap'[o].scores[j].score =
                  heap[o].scores[j].score
                      + (IF heap[o].scores[j].id = id THEN n ELSE 0)

\* a step is a playerHit that takes the health of player v of room object o,
\* a PLAYING room of the table, to 0 or below
Lethal(o, v) ==
    /\ InTable(o)
    /\ heap[o].status = "PLAYING"
    /\ Hurts(o, v)
    /\ heap'[o].players[v].health <= 0

\* C13, as stated: every lethal playerHit adds exactly 1 to the score of the
\* shooterId it names, whatever that id is, and changes no other score.
C13_ScoreAnyShooter ==
    [][\A o \in 1..Len(heap) : \A v \in DOMAIN heap[o].players :
         Lethal(o, v)
             => \A d \in Damages, sh \in PlayerIds, ty \in ItemTypes :
                   PlayerHit(heap[o].id, d, sh, v, ty)
                       => /\ HasScore(heap'[o].scores, sh)
                          /\ ScoreOf(heap'[o].scores, sh) =
                                 (IF HasScore(heap[o].scores, sh)
                                  THEN ScoreOf(heap[o].scores, sh) ELSE 0) + 1
                          /\ \A j \in 1..Len(heap[o].scores) :
                                 heap[o].scores[j].id # sh
                                     => heap'[o].scores[j] = heap[o].scores[j]
      ]_vars

\* C13, amended: every lethal playerHit adds exactly 1 to the score of the
\* shooterId it names if that id is a key of the score map of the room (the
\* victim itself included), adds no key and changes no other score; if the
\* id is not a key of the map, no score changes.
C13_ScoreKnownShooter ==
    [][\A o \in 1..Len(heap) : \A v \in DOMAIN heap[o].players :
         Lethal(o, v)
             => \A d \in Damages, sh \in PlayerIds, ty \in ItemTypes :
                   PlayerHit(heap[o].id, d, sh, v, ty) => ScoresPlus(o, sh, 1)
      ]_vars

\* a player who was alone in its room has a score of 1 and is dead: it
\* named itself as the shooter
C13_Witness ==
    \E o \in 1..Len(heap) : \E v \in DOMAIN heap[o].players :
        /\ heap[o].scores = << [id |-> v, score |-> 1] >>
        /\ heap[o].players[v].isDead
        /\ \E i \in 1..Len(respawns) : respawns[i].age = 0

\* C14: a lethal playerHit emits exactly one itemSpawn and adds exactly one
\* item to the item map of the room: the item of the event, of type 50 or
\* 51, at the position the server holds for the victim when the hit is
\* processed.
C14_ItemOnDeath ==
    /\ [](\A r \in GameRooms, d \in Damages, sh \in PlayerIds, v \in PlayerIds,
             ty \in ItemTypes :
               (HitApplies(r, v) /\ PlayerOf(r, v).health - d <= 0)
                   => /\ Len(Named(PlayerHitOut(r, d, sh, v, ty), "itemSpawn")) = 1
                      /\ LET item == Named(PlayerHitOut(r, d, sh, v, ty),
                                           "itemSpawn")[1]
                         IN  /\ item.to = ToRoom(r)
                             /\ item.p.type \in {50, 51}
                             /\ item.p.x = PlayerOf(r, v).x
                             /\ item.p.y = PlayerOf(r, v).y
                             /\ item.p.id \notin DOMAIN heap[RoomAt(r)].items)
    /\ [][\A o \in 1..Len(heap) : \A v \in DOMAIN heap[o].players :
             Lethal(o, v)
                 => /\ Cardinality(DOMAIN heap'[o].items) =
                           Cardinality(DOMAIN heap[o].items) + 1
                    /\ DOMAIN heap[o].items \subseteq DOMAIN heap'[o].items
                    /\ \A d \in Damages, sh \in PlayerIds, ty \in ItemTypes :
                           PlayerHit(heap[o].id, d, sh, v, ty)
                               => LET item == Named(PlayerHitOut(heap[o].id, d, sh,
                                                                v, ty),
                                                   "itemSpawn")[1].p
                                  IN  /\ item.id \in DOMAIN heap'[o].items
                                      /\ heap'[o].items[item.id] = item
       ]_vars

\* the item of a victim that had walked away from the point where players
\* join lies where the victim died
C14_Witness ==
    \E o \in 1..Len(heap) : \E i \in DOMAIN heap[o].items :
        \E v \in DOMAIN heap[o].players :
            /\ heap[o].items[i].x = 75
            /\ heap[o].items[i].y = 95
            /\ heap[o].players[v].isDead
            /\ heap[o].players[v].x = 75
            /\ heap[o].players[v].y = 95

\* C15: every healthUpdate of a playerHit that leaves the stored health of
\* the victim at 0 or below carries health 0; none carries a negative health.
C15_HealthZero ==
    \A r \in GameRooms, d \in Damages, sh \in PlayerIds, v \in PlayerIds,
       ty \in ItemTypes :
         (HitApplies(r, v) /\ PlayerOf(r, v).health - d <= 0)
             => \A j \in 1..Len(Named(PlayerHitOut(r, d, sh, v, ty), "healthUpdate")) :
                    Named(PlayerHitOut(r, d, sh, v, ty), "healthUpdate")[j].p.health = 0

(***************************************************************************)
(* Timers that outlive their room                                          *)
(***************************************************************************)
\* the respawn that is next to run is due, and the room in which its victim
\* died is out of the table or the victim has left it
RespawnOrphaned ==
    /\ respawns # << >>
    /\ Head(respawns).left = 0
    /\ \/ ~InTable(Head(respawns).obj)
       \/ Head(respawns).victimId
              \notin DOMAIN heap[Head(respawns).obj].players

\* C16: a respawn callback that runs when the room of the death was deleted
\* or the victim has left it emits no event and changes nothing but the
\* set of pending timers, which it leaves.
C16_RespawnNoOp ==
    /\ [](RespawnOrphaned => \A k \in SpawnPicks : RespawnOut(k) = << >>)
    /\ [][(RespawnOrphaned /\ Len(respawns') < Len(respawns))
             => /\ respawns' = Tail(respawns)
                /\ UNCHANGED << conn, rooms, heap, intervals, nIntervals,
                                expiries, nItems, removed, collected, gameOvers,
                                objectHealth >>
       ]_vars

\* a respawn is due whose room was deleted, and a new room has its id
C16_Witness ==
    /\ RespawnOrphaned
    /\ ~InTable(Head(respawns).obj)
    /\ RoomAt(Head(respawns).roomId) # NoRoom

\* C17: an item timeout that runs when the room of the item was deleted
\* emits no itemRemoved and changes nothing, whether or not a new room has
\* the id of the old one.
C17_ExpiryRevalidates ==
    /\ [](\A t \in expiries :
             (t.left = 0 /\ ~InTable(t.obj)) => ItemExpireOut(t) = << >>)
    /\ [][\A t \in expiries :
             (t.left = 0 /\ ~InTable(t.obj) /\ t \notin expiries')
                 => heap' = heap /\ removed' = removed
       ]_vars

\* C18: a createRoom that creates a room uses an id that was not a key of
\* the room table, and every room that existed keeps its place in the table
\* and its players, scores, items, timeLeft and status.
C18_NoReplace ==
    [][Len(heap') > Len(heap)
         => /\ rooms[heap'[Len(heap')].id] = NoRoom
            /\ \A o \in 1..Len(heap) :
                   /\ heap'[o].players = heap[o].players
                   /\ heap'[o].scores = heap[o].scores
                   /\ heap'[o].items = heap[o].items
                   /\ heap'[o].timeLeft = heap[o].timeLeft
                   /\ heap'[o].status = heap[o].status
                   /\ InTable(o) => rooms'[heap[o].id] = o
      ]_vars

\* C19: createRoom with a requested id that, in upper case and cut to ten
\* characters, is the id of a room of the table emits one 'error' to the
\* requesting socket and nothing else, and changes nothing: the table, the
\* room objects (so the players of every room) and the timers stay as they
\* are
C19_DuplicateRefused ==
    /\ [](\A s \in Sockets, c \in LobbyIds \ {<< >>}, d \in ShortDurations,
             u1 \in Uuids, u2 \in Uuids :
             (conn[s] = "open" /\ rooms[CustomRoomId(c)] # NoRoom)
                 => CreateRoomOut(s, c, d, UsernameOf[s], u1, u2)
                        = << Ev("error", ToSocket(s), "Room ID already exists") >>)
    /\ [][\A s \in Sockets, c \in LobbyIds \ {<< >>}, d \in ShortDurations,
             u1 \in Uuids, u2 \in Uuids :
             (conn[s] = "open" /\ rooms[CustomRoomId(c)] # NoRoom)
                 => ~CreateRoom(s, c, d, UsernameOf[s], u1, u2)]_vars

\* a room created under an id of eleven characters is in the table, and a
\* socket that is not one of its players is open
C19_Witness ==
    \E c \in LobbyIds, s \in Sockets :
        /\ Len(c) > CUSTOM_ID_LEN
        /\ rooms[CustomRoomId(c)] # NoRoom
        /\ conn[s] = "open"
        /\ s \notin DOMAIN heap[rooms[CustomRoomId(c)]].players
        /\ Len(heap) < MaxRooms

\* C20: playerMove, playerHit and pickupItem that name a room id that is not
\* in the table, a playerHit whose victimId is not a player of the room and a
\* pickupItem whose itemId is not in the item map of the room emit nothing and
\* change nothing
C20_NotFoundSilent ==
    /\ [](\A s \in Sockets, r \in GameRooms :
             /\ RoomAt(r) = NoRoom
                    => /\ \A m \in Moves : PlayerMoveOut(s, r, m) = << >>
                       /\ \A d \in Damages, sh \in PlayerIds,
                             v \in PlayerIds \cup Inherited, ty \in ItemTypes :
                               PlayerHitOut(r, d, sh, v, ty) = << >>
                       /\ \A i \in (1..MaxItems) \cup InheritedItemIds :
                               PickupItemOut(s, r, i) = << >>
             /\ RoomAt(r) # NoRoom
                    => /\ \A d \in Damages, sh \in PlayerIds, ty \in ItemTypes,
                             v \in (PlayerIds \cup Inherited)
                                      \ DOMAIN heap[RoomAt(r)].players :
                               PlayerHitOut(r, d, sh, v, ty) = << >>
                       /\ \A i \in ((1..MaxItems) \cup InheritedItemIds)
                                      \ DOMAIN heap[RoomAt(r)].items :
                               PickupItemOut(s, r, i) = << >>)
    /\ [][\A s \in Sockets, r \in GameRooms :
             /\ \A m \in Moves : RoomAt(r) = NoRoom => ~PlayerMove(s, r, m)
             /\ \A d \in Damages, sh \in PlayerIds,
                   v \in PlayerIds \cup Inherited, ty \in ItemTypes :
                     (\/ RoomAt(r) = NoRoom
                      \/ v \notin DOMAIN heap[RoomAt(r)].players)
                         => ~PlayerHit(r, d, sh, v, ty)
             /\ \A i \in (1..MaxItems) \cup InheritedItemIds :
                     (\/ RoomAt(r) = NoRoom
                      \/ i \notin DOMAIN heap[RoomAt(r)].items)
                         => ~PickupItem(s, r, i)]_vars

(***************************************************************************)
(* Frames of playerMove and of a hit that is not deadly                    *)
(***************************************************************************)
\* socket s is a player of the room roomId of the table, which is PLAYING
Plays(s, roomId) ==
    /\ RoomAt(roomId) # NoRoom
    /\ heap[RoomAt(roomId)].status = "PLAYING"
    /\ s \in DOMAIN heap[RoomAt(roomId)].players

\* C21: a playerMove of a player of a PLAYING room sets x, y and angle of
\* that player to the payload and emits playerMoved to the other members of
\* the room, not to the sender; every health, isDead flag, score, item,
\* timeLeft and every other player stays as it is; a playerMove of a socket
\* that is not a player of the room, or to a room that is not PLAYING, emits
\* nothing and changes nothing.
C21_MoveFrame ==
    /\ [](\A s \in Sockets, r \in GameRooms, m \in Moves :
             PlayerMoveOut(s, r, m) =
                 IF Plays(s, r)
                 THEN << [ev |-> "playerMoved",
                          to |-> <<"room", r, "except", s>>,
                          p  |-> [id |-> s, x |-> m.x, y |-> m.y,
                                  angle |-> m.angle]] >>
                 ELSE << >>)
    /\ [][\A s \in Sockets, r \in GameRooms, m \in Moves :
             PlayerMove(s, r, m)
                 => /\ ~Plays(s, r) => UNCHANGED vars
                    /\ UNCHANGED << conn, rooms, intervals, nIntervals, respawns,
                                    expiries, nItems, removed, collected,
                                    gameOvers, objectHealth, clientVars >>
                    /\ Len(heap') = Len(heap)
                    /\ \A o \in 1..Len(heap) :
                           /\ heap'[o].scores = heap[o].scores
                           /\ heap'[o].items = heap[o].items
                           /\ heap'[o].timeLeft = heap[o].timeLeft
                           /\ heap'[o].status = heap[o].status
                           /\ DOMAIN heap'[o].players = DOMAIN heap[o].players
                           /\ \A q \in DOMAIN heap[o].players :
                                  IF o = RoomAt(r) /\ q = s
                                  THEN heap'[o].players[q] =
                                           [ x |-> m.x, y |-> m.y,
                                             angle |-> m.angle, id |-> s,
                                             health |-> heap[o].players[q].health,
                                             isDead |-> heap[o].players[q].isDead,
                                             name |-> heap[o].players[q].name ]
                                  ELSE heap'[o].players[q] = heap[o].players[q]
       ]_vars

\* a player of a room has moved, the other player of the room has not, and
\* the room is FINISHED, so that further moves are refused
C21_Witness ==
    \E o \in 1..Len(heap) : \E s, q \in DOMAIN heap[o].players :
        /\ InTable(o)
        /\ heap[o].status = "FINISHED"
        /\ \E m \in Moves : heap[o].players[s].x = m.x /\ heap[o].players[s].angle = m.angle
        /\ heap[o].players[q].x = 25 /\ heap[o].players[q].angle = 0
        /\ conn[q] = "open"

\* C29: hits are applied one by one, none is dropped as a repeat: each
\* playerHit on a living player of a PLAYING room lowers the stored health by
\* exactly the damage and broadcasts exactly one healthUpdate {id, health}
\* with the new value, as the first event; if the new value is above 0 it is
\* the only event and nothing else changes: no score, isDead flag, position,
\* item or timer.
C29_HitsApplied ==
    /\ [](\A r \in GameRooms, d \in Damages, sh \in PlayerIds, v \in PlayerIds,
             ty \in ItemTypes :
             (Plays(v, r) /\ ~PlayerOf(r, v).isDead)
                 => LET out == PlayerHitOut(r, d, sh, v, ty)
                        new == [id |-> v, health |-> PlayerOf(r, v).health - d]
                    IN  /\ Len(out) >= 1
                        /\ out[1] = [ev |-> "healthUpdate", to |-> <<"room", r>>,
                                     p |-> new]
                        /\ Count(out, "healthUpdate", new) = 1
                        /\ new.health > 0 => Len(out) = 1)
    /\ [][\A o \in 1..Len(heap) : \A v \in DOMAIN heap[o].players :
             (Hurts(o, v) /\ ~heap[o].players[v].isDead)
                 => /\ InTable(o) /\ heap[o].status = "PLAYING"
                    /\ \E d \in Damages :
                           heap'[o].players[v].health = heap[o].players[v].health - d
                    /\ heap'[o].players[v].health > 0
                           => /\ heap' = [heap EXCEPT ![o].players[v].health =
                                                          heap'[o].players[v].health]
                              /\ UNCHANGED << conn, rooms, intervals, nIntervals,
                                              respawns, expiries, nItems, removed,
                                              collected, gameOvers, objectHealth,
                                              clientVars >>
       ]_vars

\* a hit of 50 has left a living player with health 50 in a PLAYING room, and
\* no item was spawned
C29_Witness ==
    \E o \in 1..Len(heap) : \E v \in DOMAIN heap[o].players :
        /\ heap[o].players[v].health = 50
        /\ ~heap[o].players[v].isDead
        /\ heap[o].status = "PLAYING"
        /\ nItems = 0

(***************************************************************************)
(* Properties of the local client                                          *)
(***************************************************************************)
\* v is a remote player that lives, as the local client knows it
RemoteAlive(v) ==
    /\ game.mounted /\ game.isMultiplayer
    /\ v \in DOMAIN net.players /\ v # net.playerId
    /\ net.players[v].health > 0

\* the events evs hold a healthUpdate of player v with health h
Updates(evs, v, h) ==
    \E j \in 1..Len(evs) :
        evs[j].ev = "healthUpdate" /\ evs[j].p.id = v /\ evs[j].p.health = h

\* C22: in a multiplayer game a shot that the hit test resolves to a remote
\* player leaves the local record of that player as it is and emits exactly
\* one playerHit with the id of the shooter, the id of the victim and the
\* damage; the local health of a remote player changes only in a step in
\* which the server sends a healthUpdate with the new health.
C22_ShotClaimsHit ==
    [][ /\ \A in \in Frames(BOOLEAN, {0}, {FALSE}) :
              ( /\ RemoteAlive(in.v)
                /\ fires(game, Seen(game))
                /\ MouseDown(in.i, in.v, in.isHead, in.ty) )
              => /\ net'.players = net.players
                 /\ Len(net'.outbox) = Len(net.outbox) + 1
                 /\ LET m == net'.outbox[Len(net'.outbox)]
                    IN  /\ m.ev = "playerHit"
                        /\ m.p.shooterId = net.playerId
                        /\ m.p.victimId = in.v
                        /\ m.p.damage = Dmg(game, in.isHead)
        /\ \A v \in Others :
              ( /\ v \in DOMAIN net.players /\ v \in DOMAIN net'.players
                /\ net'.players[v].health # net.players[v].health )
              => \/ \E s \in Others, r \in GameRooms, d \in Damages,
                       w \in PlayerIds, ty \in ItemTypes :
                         /\ PlayerHit(r, d, s, w, ty)
                         /\ Updates(PlayerHitOut(r, d, s, w, ty), v,
                                    net'.players[v].health)
                 \/ \E k \in SpawnPicks :
                         /\ Respawn(k)
                         /\ Updates(RespawnOut(k), v, net'.players[v].health)
      ]_vars

\* shoot() must refuse: the last shot is too recent, a reload is running,
\* the player is dead, or the clip of a limited gun is empty
Blocked ==
    \/ game.sinceShot < WEAPONS[game.weaponIndex + 1].fireRate
    \/ game.isReloading
    \/ game.health <= 0
    \/ ~game.isInfiniteAmmo /\ game.ammo <= 0

\* the renders whose shoot() a fire command may run now: that of the last
\* render for a click, and that of the animation frame while the button is
\* held with an automatic weapon
FireCommands ==
    (IF game.health > 0 /\ ~game.isPaused THEN {Seen(game)} ELSE {})
        \cup (IF /\ ~game.tick.isPaused /\ game.isMouseDown
                  /\ WEAPONS[game.weaponIndex + 1].isAuto
               THEN {game.tick} ELSE {})

\* C23: a fire command (a click, or a frame with the button held and an
\* automatic weapon) that comes before the fire rate has passed, during a
\* reload, while the player is dead or, with limited ammo, with an empty
\* clip damages no enemy, takes no round and sends no hit; a shot that is
\* accepted takes exactly one round with limited ammo and damages at most
\* one enemy.
C23_FireGuards ==
    game.mounted =>
        \A c \in FireCommands, in \in Frames(BOOLEAN, {0}, {FALSE}) :
            LET s == Shot(Client, c, in.i, in.v, in.isHead, in.ty)
            IN  IF Blocked
                THEN /\ s.g.ammo = game.ammo
                     /\ \A j \in 1..Len(foe) : s.f[j].health = foe[j].health
                     /\ s.n.outbox = net.outbox
                ELSE /\ s.g.ammo = IF game.isInfiniteAmmo THEN game.ammo
                                   ELSE game.ammo - 1
                     /\ Cardinality({j \in 1..Len(foe) :
                                        s.f[j].health < foe[j].health}) <= 1
                     /\ Len(s.n.outbox) <= Len(net.outbox) + 1

\* C24: whatever the order of shots, reloads, reload timers (two may be
\* pending at once), ammo pickups and respawn refills, the clip holds
\* between 0 and CLIP_SIZE rounds and the reserve between 0 and MAX_RESERVE;
\* the callback of a reload timer moves rounds from the reserve to the clip
\* and keeps their sum.
C24_AmmoBounds ==
    /\ [](game.mounted => /\ game.ammo \in 0..CLIP_SIZE
                          /\ game.ammoReserve \in 0..MAX_RESERVE)
    /\ [][ReloadTimeout => /\ game'.ammo + game'.ammoReserve
                                = game.ammo + game.ammoReserve
                           /\ game'.ammo >= game.ammo]_vars

\* a reload timer is still pending after the callback of an earlier one has
\* filled the clip from the reserve
C24_Witness ==
    /\ game.mounted
    /\ Len(game.reloads) = 1 /\ ~game.isReloading
    /\ game.ammo = CLIP_SIZE /\ game.ammoReserve < START_RESERVE

\* C25: while a multiplayer Game is mounted, onTimeUpdate and onGameOver
\* are its callbacks: every timeUpdate the client hears sets the time the
\* game displays, and a gameOver sets its game-over data.
C25_TimeShown ==
    /\ [](game.mounted /\ game.isMultiplayer
            => net.on.onTimeUpdate = "game" /\ net.on.onGameOver = "game")
    /\ [][ \A t \in intervals :
             ( /\ game.mounted /\ game.isMultiplayer
               /\ RoomAt(t.roomId) # NoRoom /\ t.roomId \in net.joined
               /\ CountdownFire(t) )
             => /\ game'.timeLeft = Counted(t)[t.obj].timeLeft
                /\ TimeUp(t) => game'.gameOverData # << >>
      ]_vars

\* enemy e of the single-player game before a step and e2 after it are the
\* same enemy
SameEnemy(e, e2) == e.id = e2.id

\* the step rouses an enemy that a shot has not hit: it was IDLE and is in
\* CHASE with the health it had
Roused(e, e2) ==
    SameEnemy(e, e2) /\ e.state = "IDLE" /\ e2.state = "CHASE"

\* whatever the enemies do in the next frame, updateAI lowers the health of
\* the player only for an attacker that it leaves in CHASE
IdleHarmless ==
    \A in \in Hunts :
        LET s == updateAI(Client, in)
        IN  s.g.health < game.health =>
                in.att \in 1..Len(s.f) /\ s.f[in.att].state = "CHASE"

\* C30, as stated: an enemy of the single-player game leaves IDLE for CHASE
\* only when the player is nearer than the aggro range and in its line of
\* sight; an enemy in CHASE stays in CHASE as long as it is there, no enemy
\* is ever in another state, and a frame lowers the health of the player
\* only for an attacker that is in CHASE.
C30_AggroInRange ==
    /\ [](game.mounted /\ ~game.isMultiplayer => IdleHarmless)
    /\ [][game.mounted /\ ~game.isMultiplayer =>
        /\ \A j \in 1..Len(foe), k \in 1..Len(foe') :
              /\ Roused(foe[j], foe'[k]) =>
                    foe'[k].dist < AGGRO_RANGE /\ foe'[k].sees
              /\ SameEnemy(foe[j], foe'[k]) /\ foe[j].state = "CHASE" =>
                    foe'[k].state = "CHASE"
        /\ \A k \in 1..Len(foe') : foe'[k].state \in {"IDLE", "CHASE"}]_vars

\* C30, amended: an enemy of the single-player game leaves IDLE for CHASE
\* only when the player is nearer than the aggro range and in its line of
\* sight, or when a shot of the player has hit it in that step and it
\* lives; an enemy in CHASE stays in CHASE as long as it is there, no enemy
\* is ever in another state, and a frame lowers the health of the player
\* only for an attacker that is in CHASE.
C30_AggroOrHit ==
    /\ [](game.mounted /\ ~game.isMultiplayer => IdleHarmless)
    /\ [][game.mounted /\ ~game.isMultiplayer =>
        /\ \A j \in 1..Len(foe), k \in 1..Len(foe') :
              /\ Roused(foe[j], foe'[k]) =>
                    \/ foe'[k].dist < AGGRO_RANGE /\ foe'[k].sees
                    \/ foe'[k].health < foe[j].health /\ foe'[k].health > 0
              /\ SameEnemy(foe[j], foe'[k]) /\ foe[j].state = "CHASE" =>
                    foe'[k].state = "CHASE"
        /\ \A k \in 1..Len(foe') : foe'[k].state \in {"IDLE", "CHASE"}]_vars

\* one enemy has been roused by the sight of the player and has hurt the
\* player, another chases the player from outside the aggro range because
\* a shot has hit it, and a third one was shot dead
C30_Witness ==
    /\ game.mounted /\ ~game.isMultiplayer
    /\ game.health < START_HEALTH /\ game.score = KILL_POINTS
    /\ \E j \in 1..Len(foe), k \in 1..Len(foe) :
          /\ foe[j].state = "CHASE" /\ foe[j].health = ENEMY_HEALTH
          /\ foe[k].state = "CHASE" /\ foe[k].health \in 1..(ENEMY_HEALTH - 1)
          /\ foe[k].dist >= AGGRO_RANGE

\* C26: on a map whose border is solid, from every place the player can
\* stand at and for the ray of every column (the middle column's ray has a
\* component 0 when the player looks along an axis), the loop of castWalls
\* stays inside the grid, ends each column, and ends it only with a hit on
\* a wall, whose distance it writes to the zBuffer.
C26_WallHit ==
    /\ [](ray.at = "walls" /\ SolidBorder(ray.map) =>
            /\ InGrid(ray.map, ray.d.mapX, ray.d.mapY)
            /\ RayDir(ray.dir, ray.x) # [x |-> 0, y |-> 0])
    /\ [][ray.at = "walls" /\ SolidBorder(ray.map) /\ ray'.zBuffer # ray.zBuffer =>
            LET d == Advance(ray.map, ray.d)
            IN  /\ ray.map[d.mapX][d.mapY] > 0
                /\ ray'.zBuffer = [ray.zBuffer EXCEPT ![ray.x] = Dist(d)]]_vars
    /\ \A c \in 0..(Width - 1) :
          (ray.at = "walls" /\ SolidBorder(ray.map) /\ ray.x = c)
              ~> (ray.at = "sprites" \/ (ray.at = "walls" /\ ray.x = c + 1))

\* the walls of a frame have been cast on the closed map for a player who
\* has left the spawn point and stands on a grid line, and every column has
\* the distance of a wall in front of the player
C26_Witness ==
    /\ ray.at = "sprites" /\ SolidBorder(ray.map)
    /\ ray.pos.x % 2 = 0 /\ ray.pos # Spawn
    /\ \A c \in 0..(Width - 1) : ray.zBuffer[c] > 0

\* places outside the map
Beyond == { [x |-> 11, y |-> 3], [x |-> 3, y |-> -1] }

\* C27: every lookup in the grid takes a cell outside the grid for solid:
\* the walk of castWalls and the walk of the shot stop with the first cell
\* outside, a line of sight to a place outside the grid is blocked, and the
\* player never stands in a cell outside.
C27_OutsideIsSolid ==
    ray # NoRay =>
        /\ ray.at = "walls" => ray.d.outside = 0
        /\ ray.at = "shot" => ray.d.outside <= 1
        /\ \A p \in Beyond : ~hasLineOfSight(ray.pos, p, ray.map)
        /\ InGrid(ray.map, Floor(ray.pos.x), Floor(ray.pos.y))

\* C28: when castSprites has drawn a sprite that is in front of the camera,
\* then in every column of the screen that lies within the extent of the
\* sprite the stripe is drawn exactly if the sprite is nearer than the
\* wall of that column.
C28_DrawnIffNearer ==
    ray.at = "done" =>
        LET sp == ray.sprite
            depth == ray.dir.x * (sp.x - ray.pos.x)
                         + ray.dir.y * (sp.y - ray.pos.y)
        IN  depth > 0 =>
                \A c \in 0..(Width - 1) :
                    /\ Projected(ray.pos, ray.dir, sp).from <= 2 * c
                    /\ 2 * c + 2 <= Projected(ray.pos, ray.dir, sp).to
                    => (c \in ray.drawn <=> depth < ray.zBuffer[c])

(***************************************************************************)
(* Properties of the rooms and of the local client in them                 *)
(***************************************************************************)
\* the rooms of the table in which socket s is a player
RoomsWith(s) ==
    {r \in DOMAIN rooms :
        rooms[r] # NoRoom /\ s \in DOMAIN heap[rooms[r]].players}

\* C38: when the server has put the local client in a room and the client
\* has heard the playerJoined of its own join (no message of the client
\* waits for the server), NetworkManager.roomId is the id of a room the
\* client plays in, so that sendMove, sendHit and sendPickup are not dropped.
C38_RoomIdKept ==
    RoomsWith(Me) # {} /\ net.outbox = << >> =>
        net.roomId.is = "string" /\ net.roomId.id \in RoomsWith(Me)

\* C39: in a multiplayer game, when the local player has died and the
\* respawn of the server has been heard (the health of the player is above
\* 0 again), the game is in normal play: isGameOver is false.
C39_BackInPlay ==
    game.mounted /\ game.isMultiplayer /\ game.health > 0 =>
        ~game.isGameOver

\* enemy j of the single-player game dies in the step: it lives before, and
\* after the step it is dead or gone
Slain(j) ==
    /\ foe[j].health > 0
    /\ \A k \in 1..Len(foe') :
          SameEnemy(foe[j], foe'[k]) => foe'[k].health <= 0

\* C31: in the single-player game a step in which an enemy dies adds
\* KILL_POINTS to the score once and one item at the place of that enemy,
\* and no other step adds to the score or drops an item; an enemy that is
\* dead is never hit again; after every updateAI all enemies of the list
\* live; and the list never holds more than MAX_ENEMIES enemies.
C31_Loot ==
    /\ [](game.mounted /\ ~game.isMultiplayer =>
            /\ Len(foe) <= MAX_ENEMIES
            /\ \A in \in Hunts :
                  LET s == updateAI(Client, in)
                  IN  \A k \in 1..Len(s.f) : s.f[k].health > 0)
    /\ [][game.mounted /\ ~game.isMultiplayer /\ game'.mounted =>
            LET slain == {j \in 1..Len(foe) : Slain(j)}
            IN  /\ Cardinality(slain) <= 1
                /\ game'.score = game.score + KILL_POINTS * Cardinality(slain)
                /\ Len(game'.items) = Len(game.items) + Cardinality(slain)
                /\ \A j \in slain :
                      /\ SubSeq(game'.items, 1, Len(game.items)) = game.items
                      /\ game'.items[Len(game'.items)].pos = foe[j].dist
                /\ \A j \in 1..Len(foe), k \in 1..Len(foe') :
                      SameEnemy(foe[j], foe'[k]) /\ foe[j].health <= 0 =>
                          foe'[k] = foe[j]]_vars

\* two enemies have been shot dead and have left two items and 200 points;
\* the second of them is still in the list, and a third one lives
C31_Witness ==
    /\ game.mounted /\ ~game.isMultiplayer
    /\ game.score = 2 * KILL_POINTS /\ Len(game.items) = 2
    /\ \E j \in 1..Len(foe), k \in 1..Len(foe) :
          foe[j].health <= 0 /\ foe[k].health > 0

\* the ids of the items that the game of the local client shows
ItemsShown == {game.items[k].id : k \in 1..Len(game.items)}

\* C32: when the local client plays in a room and no message waits (every
\* broadcast of the server has been delivered), the items of its game are
\* the items that the server holds for that room, also when it joined while
\* items were lying there.
C32_SameItems ==
    game.mounted /\ game.isMultiplayer /\ net.outbox = << >> =>
        \A r \in RoomsWith(Me) :
            ItemsShown = {heap[rooms[r]].items[i].id :
                             i \in DOMAIN heap[rooms[r]].items}

(* Properties of the respawn timers *)
\* the room objects that the table of rooms holds
Listed == {o \in 1..Len(heap) : rooms[heap[o].id] = o}

\* player v of the room object o is marked dead
DeadIn(o, v) == v \in DOMAIN heap[o].players /\ heap[o].players[v].isDead

\* the pending respawn timers of player v in the room with the id of o
Pending(o, v) ==
    {i \in 1..Len(respawns) :
        respawns[i].roomId = heap[o].id /\ respawns[i].victimId = v}

\* C33: a player who is marked dead in a room of the table has a pending
\* respawn timer; the step that marks the player dead schedules a timer
\* of RESPAWN_DELAY for that player, timers leave the queue only by
\* firing when their delay has run out, and a timer that fires for a
\* player who is in the room of the table leaves that player alive with
\* health 100, whatever the status of the room is.
C33_DeadAwaitsRespawn ==
    /\ [](\A o \in Listed : \A v \in DOMAIN heap[o].players :
            DeadIn(o, v) => Pending(o, v) # {})
    /\ [][  /\ \A o \in Listed : \A v \in DOMAIN heap'[o].players :
                ( /\ rooms'[heap[o].id] = o
                  /\ ~DeadIn(o, v)
                  /\ heap'[o].players[v].isDead )
                => /\ Len(respawns') = Len(respawns) + 1
                   /\ respawns'[Len(respawns')].roomId = heap[o].id
                   /\ respawns'[Len(respawns')].victimId = v
                   /\ respawns'[Len(respawns')].left = RESPAWN_DELAY
            /\ Len(respawns') >= Len(respawns)
                => \A i \in 1..Len(respawns) :
                      /\ respawns'[i].roomId = respawns[i].roomId
                      /\ respawns'[i].victimId = respawns[i].victimId
                      /\ respawns'[i].left \in {respawns[i].left,
                                                respawns[i].left - 1}
            /\ Len(respawns') < Len(respawns)
                => LET t == Head(respawns)
                       o == rooms'[t.roomId]
                   IN  /\ t.left = 0
                       /\ respawns' = Tail(respawns)
                       /\ ( (o # NoRoom /\ t.victimId \in DOMAIN heap'[o].players)
                             => /\ ~heap'[o].players[t.victimId].isDead
                                /\ heap'[o].players[t.victimId].health
                                       = START_HEALTH )
       ]_vars

\* a dead player of a room that is FINISHED, whose respawn is due
C33_Witness ==
    \E o \in Listed : \E v \in DOMAIN heap[o].players :
        /\ heap[o].status = "FINISHED"
        /\ DeadIn(o, v)
        /\ \E i \in Pending(o, v) : respawns[i].left = 0

\* C34: a respawn timer that fires for a player who is in the room and
\* alive (isDead false) changes nothing in the room and emits nothing: a
\* respawn heals, moves and notifies dead players only.
C34_RespawnOnlyDead ==
    [][ ( /\ Len(respawns') < Len(respawns)
          /\ RespawnApplies
          /\ ~DeadIn(RoomAt(Head(respawns).roomId), Head(respawns).victimId) )
        => /\ heap' = heap
           /\ \A k \in SpawnPicks : RespawnOut(k) = << >>
      ]_vars

(* Properties of the player sets and of the scores *)
\* C35: after the disconnect of a socket no room of the table has the
\* socket among its players, and no room of the table that the socket was
\* in is left without players, in however many rooms the socket was.
C35_GoneFromAllRooms ==
    [][\A s \in Sockets :
          conn[s] = "open" /\ conn'[s] = "closed" =>
              \A o \in 1..Len(heap') :
                  rooms'[heap'[o].id] = o =>
                      /\ s \notin DOMAIN heap'[o].players
                      /\ o \in RoomsOf(s) => DOMAIN heap'[o].players # {}
      ]_vars

\* C36: while a room stays in the table, no entry of its score map is
\* removed or lowered by any step.
C36_ScoresGrow ==
    [][\A o \in Listed : \A id \in PlayerIds :
          rooms'[heap[o].id] = o /\ HasScore(heap[o].scores, id) =>
              /\ HasScore(heap'[o].scores, id)
              /\ ScoreOf(heap'[o].scores, id) >= ScoreOf(heap[o].scores, id)
      ]_vars

\* C37: the winnerName of a gameOver is the stored name of the player
\* winnerId if that player is in the room, and 'Unknown' if not.
C37_WinnerName ==
    \A t \in intervals :
        (t.left = 0 /\ RoomAt(t.roomId) # NoRoom /\ TimeUp(t))
        => LET over == Named(CountdownOut(t), "gameOver")[1].p
               players == heap[RoomAt(t.roomId)].players
           IN  over.winnerName = IF over.winnerId \in DOMAIN players
                                 THEN players[over.winnerId].name
                                 ELSE "Unknown"

====
